---- MODULE Spec2Model ----
(***************************************************************************)
(* Terminal Session Bridge of termissh: the session manager of            *)
(* src/src/app.rs (App::update), its reader workers, and the relay child  *)
(* process seen from the host application.                                 *)
(*                                                                         *)
(* Indexes into terminal_tabs are 1-based here (Rust: 0-based); the       *)
(* Option<usize> active_tab is 0 for None.                                 *)
(***************************************************************************)
EXTENDS Integers, Sequences, FiniteSets, TLC

VARIABLES
    app,               \* "running" | "dropped" (impl Drop for App has run)
    pc,                \* position of the UI thread inside App::update
    terminal_tabs,     \* Vec<TerminalTab>
    active_tab,        \* Option<usize>
    tab_counter,       \* u64
    terminal_runtime,  \* HashMap<u64, TerminalRuntime>
    scroll_mode,       \* bool
    dialog,            \* Option<DialogState>, "None" or the dialog's name
    custom_commands,   \* config.custom_commands
    child,             \* the relay OS process of every session id
    pipe,              \* OS pipes relay -> reader worker, per id and pipe
    reader,            \* the two reader threads of every session id
    poll,              \* locals of the TerminalPoll handler
    closing,           \* locals of the CloseTab handler
    task,              \* the Task returned by the last completed handler
    written,           \* what the last completed handler wrote to a relay stdin
    stdin_pipe         \* the relays' stdin pipes and the write the UI thread is in

vars == <<app, pc, terminal_tabs, active_tab, tab_counter, terminal_runtime,
          scroll_mode, dialog, custom_commands, child, pipe,
          reader, poll, closing, task, written,
          stdin_pipe>>

----------------------------------------------------------------------------
(* Bounds *)

MaxTabs == 2      \* connect attempts in one run
MaxOut == 2       \* chunks the relay processes write in one run

Ids == 1..MaxTabs
Pipes == {"stdout", "stderr"}
(* What a chunk does to the interpreter: plain text, or the escape sequence *)
(* that enters or leaves the alternate screen.  The relay writes only       *)
(* messages to its stderr.                                                  *)
Kinds(p) == IF p = "stdout" THEN {"txt", "alt_on", "alt_off"} ELSE {"txt"}

(* config.hosts: the entry says whether the host answers on its port *)
hosts == <<"up", "down">>

AllKinds == {"txt", "alt_on", "alt_off"}

(* config.custom_commands as loaded at startup: two aliases share the       *)
(* trigger "a"                                                              *)
AliasTable ==
    << [trigger |-> <<97>>, script |-> <<120>>],
       [trigger |-> <<97>>, script |-> <<121, 10, 122>>],
       [trigger |-> <<98>>, script |-> <<97, 32, 98>>] >>

----------------------------------------------------------------------------
(* Helpers *)

RECURSIVE Perms(_)
Perms(S) ==
    IF S = {} THEN {<<>>}
    ELSE UNION {{<<x>> \o p : p \in Perms(S \ {x})} : x \in S}

RemoveAt(s, i) == SubSeq(s, 1, i - 1) \o SubSeq(s, i + 1, Len(s))

TabIndexOf(id) ==
    IF \E i \in 1..Len(terminal_tabs) : terminal_tabs[i].id = id
    THEN CHOOSE i \in 1..Len(terminal_tabs) : terminal_tabs[i].id = id
    ELSE 0

HasRuntime(id) == id \in DOMAIN terminal_runtime

NoWrite == [id |-> 0, bytes |-> <<>>]

(* The stdin pipes of the relays as the host side sees them: `lock` is the  *)
(* session whose stdin mutex the UI thread holds (0: none), `left` what its *)
(* write_all has still to write, `count` the writes started so far, `data`  *)
(* what has gone into each pipe, `broken` the pipes whose read end is gone. *)
(* A byte in a pipe is a record [w, k, len, b]: byte b, the k-th of the len *)
(* bytes of write number w.                                                 *)
NoStdin == [lock |-> 0, left |-> <<>>, count |-> 0,
            data |-> [id \in Ids |-> <<>>], broken |-> {}]

TERMINAL_ROWS == 40
TERMINAL_COLS == 132
ScrollbackLen == 10000

(* What the screen and its scrollback hold, in chunks: older text has       *)
(* scrolled out                                                             *)
ScreenCap == 6

(* Parser::new(TERMINAL_ROWS, TERMINAL_COLS, 10_000): an empty screen.  fed *)
(* is what the interpreter has processed and still holds, in order.         *)
NewParser ==
    [rows |-> TERMINAL_ROWS, cols |-> TERMINAL_COLS, scrollback |-> ScrollbackLen,
     alt |-> FALSE, fed |-> <<>>]

(* runtime.parser.process(&chunk) *)
ParserProcess(parser, chunk) ==
    [parser EXCEPT
       !.alt = CASE chunk.kind = "alt_on" -> TRUE
                 [] chunk.kind = "alt_off" -> FALSE
                 [] OTHER -> parser.alt,
       !.fed = IF Len(parser.fed) < ScreenCap THEN Append(parser.fed, chunk)
               ELSE Append(Tail(parser.fed), chunk)]

(* format!("\r\n[relay exited: {}]\r\n", status) *)
ExitLine(status) == [pipe |-> "app", n |-> status, kind |-> "exit"]

(* format!("Connected to {}@{}:{}\n", ...): the first cached output of a    *)
(* connected tab                                                            *)
Banner == [pipe |-> "app", n |-> 0, kind |-> "banner"]

(* normalized_screen(&runtime.parser.screen().contents()) *)
ScreenContents(parser) == parser.fed

FontDefault == 13
FontMin == 8
FontMax == 28

NewTab(id, connected, err) ==
    [id |-> id, connected |-> connected, relay_error |-> err,
     output |-> IF connected THEN <<Banner>> ELSE <<>>,
     font_size |-> FontDefault, search_active |-> FALSE, search_query |-> <<>>,
     input_buffer |-> <<>>, command_history |-> <<>>, suggestion_index |-> 0]

NoClosing == [idx |-> 0, had_runtime |-> FALSE]

(* The inside of a relay process that has not been looked into *)
NoRelay ==
    [step |-> "none", pass |-> FALSE, log |-> <<>>, running |-> FALSE,
     out_pc |-> "none", in_pc |-> "none", main_pc |-> "none",
     stdin |-> <<>>, stdin_open |-> TRUE,
     remote |-> <<>>, remote_eof |-> FALSE, remote_err |-> FALSE,
     got_in |-> <<>>, sent |-> <<>>, got_ch |-> <<>>, out |-> <<>>,
     stop |-> {}]

NoChild == [state |-> "none", status |-> 0, kills |-> 0, waits |-> 0,
            wrote |-> [p \in Pipes |-> 0], relay |-> NoRelay]

PollIdle == [ids |-> <<>>, to_remove |-> <<>>, active_id |-> 0,
             changed |-> FALSE, should_remove |-> FALSE,
             should_snap_top |-> FALSE, should_snap_bottom |-> FALSE,
             drained |-> {}, noticed |-> {}, entered_alt |-> FALSE]

(* A relay that has not reached its pump loops yet; it carries the host of  *)
(* its TERMISSH_HOST environment variable.                                  *)
Setup(host) == IF host = "up" THEN "setup_up" ELSE "setup_down"

InSetup(c) == c.state \in {"setup_up", "setup_down"}

(* The write ends of a child's stdout and stderr are closed *)
PipesClosed(id) == child[id].state \in {"exiting", "zombie", "reaped"}

(* child.kill() without the wait that reaps the process *)
KillOnly(c) ==
    [c EXCEPT !.state = "zombie",
              !.status = IF InSetup(c) \/ c.state = "pump" THEN 9 ELSE c.status,
              !.kills = c.kills + 1]

(* child.kill(); child.wait() *)
KillAndWait(c) ==
    [c EXCEPT !.state = "reaped",
              !.status = IF InSetup(c) \/ c.state = "pump" THEN 9 ELSE c.status,
              !.kills = c.kills + 1,
              !.waits = c.waits + 1]

----------------------------------------------------------------------------
Init ==
    /\ app = "running"
    /\ pc = "idle"
    /\ terminal_tabs = <<>>
    /\ active_tab = 0
    /\ tab_counter = 0
    /\ terminal_runtime = << >>
    /\ scroll_mode = FALSE
    /\ dialog = "None"
    /\ custom_commands = AliasTable
    /\ child = [id \in Ids |-> NoChild]
    /\ pipe = [id \in Ids |-> [p \in Pipes |-> <<>>]]
    /\ reader = [id \in Ids |-> [p \in Pipes |-> "none"]]
    /\ poll = PollIdle
    /\ closing = NoClosing
    /\ task = "none"
    /\ written = NoWrite
    /\ stdin_pipe = NoStdin

UiIdle == app = "running" /\ pc = "idle"

----------------------------------------------------------------------------
(* UI handlers: App::update *)

(* An id taken from the number of open tabs *)
SlotId == Len(terminal_tabs) + 1

(* self.tab_counter += 1; let tab_id = self.tab_counter; *)
FreshId == tab_counter + 1

(* A launch that counts as started once the relay was spawned *)
LaunchOkWithoutPipes(found, spawned, piped) == found /\ spawned

(* find_relay_binary() is Ok, spawn_relay_child() is Ok, and the child's    *)
(* stdin, stdout and stderr are all Some                                    *)
LaunchOk(found, spawned, piped) == found /\ spawned /\ piped

(* relay_error of the tab pushed by ConnectToHost *)
LaunchError(found, spawned, piped) ==
    IF ~found THEN "not_found"
    ELSE IF ~spawned THEN "spawn_failed"
    ELSE IF ~piped THEN "pipes_unavailable"
    ELSE "None"

(* Message::ConnectToHost(idx).  found: bridge::find_relay_binary() is Ok;  *)
(* spawned: bridge::spawn_relay_child() is Ok; piped: the three stdio       *)
(* handles of the child are present.  A child that was spawned without its  *)
(* pipes is dropped by the handler, neither killed nor waited on.           *)
ConnectToHostWith(idx, found, spawned, piped) ==
    /\ UiIdle
    /\ idx \in 1..Len(hosts)
    /\ tab_counter < MaxTabs
    /\ LET tab_id == FreshId
           ok == LaunchOk(found, spawned, piped)
           err == LaunchError(found, spawned, piped)
       IN  /\ tab_counter' = tab_id
           /\ terminal_runtime' =
                IF ok
                THEN [id \in DOMAIN terminal_runtime \cup {tab_id} |->
                        IF id = tab_id
                        THEN [rx |-> <<>>, parser |-> NewParser]
                        ELSE terminal_runtime[id]]
                ELSE terminal_runtime
           /\ child' = IF found /\ spawned
                       THEN [child EXCEPT ![tab_id].state = Setup(hosts[idx])]
                       ELSE child
           /\ reader' = IF ok
                        THEN [reader EXCEPT ![tab_id] = [p \in Pipes |-> "running"]]
                        ELSE reader
           /\ terminal_tabs' = Append(terminal_tabs, NewTab(tab_id, ok, err))
           /\ active_tab' = Len(terminal_tabs) + 1
    /\ task' = "none"
    /\ written' = NoWrite
    /\ UNCHANGED stdin_pipe
    /\ UNCHANGED <<app, pc, scroll_mode, dialog,
                   custom_commands, pipe, poll, closing>>

(* Message::ConnectToHost(idx) with the child's stdio pipes present *)
ConnectToHost(idx, found, spawned) == ConnectToHostWith(idx, found, spawned, TRUE)

(* self.terminal_runtime.get(&tab_id) in place of remove: the entry stays *)
RuntimeKept(tab_id) == terminal_runtime

(* self.terminal_runtime.remove(&tab_id) *)
RuntimeRemoved(tab_id) ==
    [id \in DOMAIN terminal_runtime \ {tab_id} |-> terminal_runtime[id]]

(* Message::CloseTab(idx), first half: the runtime is taken out of the map, *)
(* its child killed and waited on.                                          *)
CloseTabTeardown(idx) ==
    /\ UiIdle
    /\ idx \in 1..Len(terminal_tabs)
    /\ LET tab_id == terminal_tabs[idx].id
       IN  /\ closing' = [idx |-> idx, had_runtime |-> HasRuntime(tab_id)]
           /\ terminal_runtime' = RuntimeRemoved(tab_id)
           /\ child' = IF HasRuntime(tab_id)
                       THEN [child EXCEPT ![tab_id] = KillAndWait(child[tab_id])]
                       ELSE child
    /\ pc' = "close"
    /\ UNCHANGED <<app, terminal_tabs, active_tab, tab_counter, scroll_mode,
                   dialog, custom_commands, pipe, reader,
                   poll, task, written,
                   stdin_pipe>>

(* A focus index that is only pulled back into the list *)
FocusClamped(active, idx, len) ==
    IF len = 0 THEN 0
    ELSE IF active = 0 THEN 0
    ELSE IF active > len THEN len
    ELSE active

(* self.active_tab after self.terminal_tabs.remove(idx); len is the length  *)
(* of the list after the removal, 0 is None                                 *)
FocusAfterClose(active, idx, len) ==
    IF len = 0 THEN 0
    ELSE IF active = 0 THEN 0
    ELSE IF active > len THEN len
    ELSE IF active > idx THEN active - 1
    ELSE active

(* Message::CloseTab(idx), second half: the tab record is removed and the   *)
(* focus index repaired.                                                    *)
CloseTabRemove ==
    /\ app = "running"
    /\ pc = "close"
    /\ LET idx == closing.idx
           rest == RemoveAt(terminal_tabs, idx)
       IN  /\ terminal_tabs' = rest
           /\ active_tab' = FocusAfterClose(active_tab, idx, Len(rest))
    /\ closing' = NoClosing
    /\ pc' = "idle"
    /\ task' = "none"
    /\ written' = NoWrite
    /\ UNCHANGED stdin_pipe
    /\ UNCHANGED <<app, tab_counter, terminal_runtime, scroll_mode,
                   dialog, custom_commands, child, pipe,
                   reader, poll>>

(* Message::SwitchTab(idx) *)
SwitchTab(idx) ==
    /\ UiIdle
    /\ idx \in 1..Len(terminal_tabs)
    /\ active_tab' = idx
    /\ task' = "none"
    /\ written' = NoWrite
    /\ UNCHANGED stdin_pipe
    /\ UNCHANGED <<app, pc, terminal_tabs, tab_counter, terminal_runtime,
                   scroll_mode, dialog, custom_commands,
                   child, pipe, reader, poll, closing>>

(* The erase-display sequence fed to the interpreter the session has *)
ProcessEraseDisplay(parser) ==
    ParserProcess(parser, [pipe |-> "app", n |-> 0, kind |-> "txt"])

(* runtime.parser = Parser::new(TERMINAL_ROWS, TERMINAL_COLS, 10_000) *)
ResetParser(parser) == NewParser

(* A runtime replaced as a whole: fresh interpreter, empty channel *)
ClearAndDrain(rt) == [rx |-> <<>>, parser |-> NewParser]

(* if let Some(runtime) = self.terminal_runtime.get_mut(&tab.id) { ... } *)
ClearRuntime(rt) == [rt EXCEPT !.parser = ResetParser(rt.parser)]

(* The body of Message::TerminalClear on the tabs and runtimes given *)
ClearOutcome(active, tabs, runtime) ==
    IF active \in 1..Len(tabs)
    THEN LET id == tabs[active].id
         IN  [tabs |-> [tabs EXCEPT ![active].output = <<>>],
              runtime |-> IF id \in DOMAIN runtime
                          THEN [runtime EXCEPT ![id] = ClearRuntime(runtime[id])]
                          ELSE runtime]
    ELSE [tabs |-> tabs, runtime |-> runtime]

(* Message::TerminalClear *)
TerminalClear ==
    /\ UiIdle
    /\ terminal_tabs' =
          ClearOutcome(active_tab, terminal_tabs, terminal_runtime).tabs
    /\ terminal_runtime' =
          ClearOutcome(active_tab, terminal_tabs, terminal_runtime).runtime
    /\ task' = "none"
    /\ written' = NoWrite
    /\ UNCHANGED stdin_pipe
    /\ UNCHANGED <<app, pc, active_tab, tab_counter, scroll_mode, dialog,
                   custom_commands, child, pipe, reader, poll, closing>>

(* Message::TerminalScrollModeToggle *)
TerminalScrollModeToggle ==
    /\ UiIdle
    /\ scroll_mode' = ~scroll_mode
    /\ task' = IF scroll_mode THEN "snap_bottom" ELSE "none"
    /\ pc' = IF scroll_mode THEN "task" ELSE "idle"
    /\ written' = NoWrite
    /\ UNCHANGED stdin_pipe
    /\ UNCHANGED <<app, terminal_tabs, active_tab, tab_counter,
                   terminal_runtime, dialog, custom_commands, child, pipe,
                   reader, poll, closing>>

(* The iced runtime runs the Task the handler returned (scrollable::snap_to) *)
RunTask ==
    /\ app = "running"
    /\ pc = "task"
    /\ pc' = "idle"
    /\ task' = "none"
    /\ UNCHANGED <<app, terminal_tabs, active_tab, tab_counter, terminal_runtime,
                   scroll_mode, dialog, custom_commands, child, pipe, reader,
                   poll, closing, written,
                   stdin_pipe>>

(* impl Drop for App: every remaining runtime is drained, killed, waited on *)
DropApp ==
    /\ UiIdle
    /\ app' = "dropped"
    /\ terminal_runtime' = << >>
    /\ child' = [id \in Ids |->
                    IF HasRuntime(id) THEN KillAndWait(child[id]) ELSE child[id]]
    /\ UNCHANGED <<pc, terminal_tabs, active_tab, tab_counter, scroll_mode,
                   dialog, custom_commands, pipe, reader,
                   poll, closing, task, written,
                   stdin_pipe>>

----------------------------------------------------------------------------
(* Message::TerminalPoll, one step per access to state shared with the     *)
(* reader workers and the child process.                                    *)

(* ids, to_remove, should_snap_*, active_id *)
PollBegin(ids) ==
    /\ UiIdle
    /\ ids \in Perms(DOMAIN terminal_runtime)
    /\ poll' = [PollIdle EXCEPT
                  !.ids = ids,
                  !.active_id = IF active_tab \in 1..Len(terminal_tabs)
                                THEN terminal_tabs[active_tab].id ELSE 0]
    /\ pc' = IF ids = <<>> THEN "poll_remove" ELSE "poll_drain"
    /\ UNCHANGED <<app, terminal_tabs, active_tab, tab_counter,
                   terminal_runtime, scroll_mode, dialog,
                   custom_commands, child, pipe, reader, closing, task, written,
                   stdin_pipe>>

(* A receiver that hands out the newest chunk *)
RecvNewest(rx) == Len(rx)

(* Which chunk runtime.rx.try_recv() hands out: the oldest *)
RecvIndex(rx) == 1

(* The exit line put in front of what the interpreter has been fed *)
ExitLineFirst(parser, status) ==
    [parser EXCEPT !.fed = <<ExitLine(status)>> \o @]

(* runtime.parser.process(exit_line.as_bytes()) *)
FeedExitLine(parser, status) == ParserProcess(parser, ExitLine(status))

(* One runtime.rx.try_recv() of the drain loop *)
PollRecv ==
    /\ app = "running"
    /\ pc = "poll_drain"
    /\ LET id == Head(poll.ids)
           rt == terminal_runtime[id]
       IN  IF rt.rx /= <<>>
           THEN LET k == RecvIndex(rt.rx)
                    chunk == rt.rx[k]
                    parser2 == ParserProcess(rt.parser, chunk)
                IN  /\ terminal_runtime' =
                         [terminal_runtime EXCEPT
                            ![id] = [rx |-> RemoveAt(rt.rx, k), parser |-> parser2]]
                    /\ poll' = [poll EXCEPT
                         !.changed = TRUE,
                         !.drained = @ \cup {id},
                         !.entered_alt = @ \/ (id = poll.active_id
                                               /\ ~rt.parser.alt /\ parser2.alt)]
                    /\ pc' = pc
           ELSE /\ terminal_runtime' = terminal_runtime
                /\ poll' = [poll EXCEPT
                     !.should_remove =
                        \A p \in Pipes : reader[id][p] = "stopped"]
                /\ pc' = "poll_wait"
    /\ UNCHANGED <<app, terminal_tabs, active_tab, tab_counter, scroll_mode,
                   dialog, custom_commands, child, pipe,
                   reader, closing, task, written,
                   stdin_pipe>>

(* The snap flags computed for whichever session changed *)
AnySession(id) == TRUE

(* Some(id) == active_id *)
IsActive(id) == id = poll.active_id

(* runtime.child.try_wait(), the exit line, the snap flags of this id, and  *)
(* the push onto to_remove; then on to the next id.                         *)
PollTryWait ==
    /\ app = "running"
    /\ pc = "poll_wait"
    /\ LET id == Head(poll.ids)
           rt == terminal_runtime[id]
           exited == child[id].state = "zombie"
           parser2 == IF exited
                      THEN FeedExitLine(rt.parser, child[id].status)
                      ELSE rt.parser
           changed == poll.changed \/ exited
           should_remove == poll.should_remove \/ exited
           focused == changed /\ TabIndexOf(id) /= 0 /\ IsActive(id)
           snap_top == IF focused /\ parser2.alt THEN TRUE
                       ELSE poll.should_snap_top
           snap_bottom == IF focused /\ parser2.alt THEN FALSE
                          ELSE IF focused /\ ~poll.should_snap_top THEN TRUE
                          ELSE poll.should_snap_bottom
       IN  /\ child' = IF exited
                       THEN [child EXCEPT ![id].state = "reaped",
                                          ![id].waits = @ + 1]
                       ELSE child
           /\ terminal_runtime' = [terminal_runtime EXCEPT ![id].parser = parser2]
           /\ terminal_tabs' =
                IF changed /\ TabIndexOf(id) /= 0
                THEN [terminal_tabs EXCEPT
                        ![TabIndexOf(id)].output = ScreenContents(parser2)]
                ELSE terminal_tabs
           /\ poll' = [poll EXCEPT
                !.ids = Tail(poll.ids),
                !.to_remove = IF should_remove THEN Append(@, id) ELSE @,
                !.changed = FALSE,
                !.should_remove = FALSE,
                !.should_snap_top = snap_top,
                !.should_snap_bottom = snap_bottom,
                !.noticed = IF exited THEN @ \cup {id} ELSE @]
           /\ pc' = IF Tail(poll.ids) = <<>> THEN "poll_remove" ELSE "poll_drain"
    /\ UNCHANGED <<app, active_tab, tab_counter, scroll_mode,
                   dialog, custom_commands, pipe, reader,
                   closing, task, written,
                   stdin_pipe>>

(* The tab keeps its liveness flag *)
StayConnected(tab) == tab

(* tab.connected = false *)
MarkDisconnected(tab) == [tab EXCEPT !.connected = FALSE]

(* The runtimes of the finished sessions stay in the map *)
PollKeep(gone) == terminal_runtime

(* for id in to_remove { self.terminal_runtime.remove(&id); ... } *)
PollRemove(gone) ==
    [id \in DOMAIN terminal_runtime \ gone |-> terminal_runtime[id]]

(* for id in to_remove { ... }, then the snap decision *)
PollFinish ==
    /\ app = "running"
    /\ pc = "poll_remove"
    /\ LET gone == {poll.to_remove[i] : i \in 1..Len(poll.to_remove)}
       IN  /\ terminal_runtime' = PollRemove(gone)
           /\ terminal_tabs' =
                [i \in 1..Len(terminal_tabs) |->
                    IF terminal_tabs[i].id \in gone
                    THEN MarkDisconnected(terminal_tabs[i])
                    ELSE terminal_tabs[i]]
    /\ LET t == IF poll.should_snap_top THEN "snap_top"
                ELSE IF poll.should_snap_bottom /\ ~scroll_mode THEN "snap_bottom"
                ELSE "none"
       IN  /\ task' = t
           /\ pc' = IF t = "none" THEN "idle" ELSE "task"
    /\ written' = NoWrite
    /\ UNCHANGED stdin_pipe
    /\ poll' = PollIdle
    /\ UNCHANGED <<app, active_tab, tab_counter, scroll_mode, dialog,
                   custom_commands, child, pipe, reader, closing>>

----------------------------------------------------------------------------
(* spawn_reader_thread: one pass of the worker's loop *)
ReaderStep(id, p) ==
    /\ reader[id][p] = "running"
    /\ IF pipe[id][p] /= <<>>
       THEN /\ pipe' = [pipe EXCEPT ![id][p] = Tail(@)]
            /\ IF HasRuntime(id)
               THEN /\ terminal_runtime' =
                         [terminal_runtime EXCEPT
                            ![id].rx = Append(@, Head(pipe[id][p]))]
                    /\ reader' = reader
               ELSE /\ terminal_runtime' = terminal_runtime
                    /\ reader' = [reader EXCEPT ![id][p] = "stopped"]
       ELSE /\ PipesClosed(id)
            /\ pipe' = pipe
            /\ terminal_runtime' = terminal_runtime
            /\ reader' = [reader EXCEPT ![id][p] = "stopped"]
    /\ UNCHANGED <<app, pc, terminal_tabs, active_tab, tab_counter, scroll_mode,
                   dialog, custom_commands, child, poll,
                   closing, task, written,
                   stdin_pipe>>

----------------------------------------------------------------------------
(* The relay child process, as the host application sees it *)

ChildUnchanged ==
    UNCHANGED <<app, pc, terminal_tabs, active_tab, tab_counter,
                terminal_runtime, scroll_mode, dialog,
                custom_commands, reader, poll, closing, task, written,
                stdin_pipe>>

RECURSIVE SumWritten(_)
SumWritten(S) ==
    IF S = {} THEN 0
    ELSE LET id == CHOOSE x \in S : TRUE
         IN  child[id].wrote["stdout"] + child[id].wrote["stderr"]
             + SumWritten(S \ {id})

TotalWritten == SumWritten(Ids)

(* relay_mode::fatal: message on stderr, exit(1) *)
RelayFatal(id) ==
    /\ InSetup(child[id])
    /\ pipe' = [pipe EXCEPT ![id]["stderr"] =
                  Append(@, [pipe |-> "stderr", n |-> child[id].wrote["stderr"] + 1,
                             kind |-> "txt"])]
    /\ child' = [child EXCEPT ![id].state = "exiting",
                              ![id].status = 1,
                              ![id].wrote["stderr"] = @ + 1]
    /\ ChildUnchanged

(* the shell is up: the relay starts pumping *)
RelayPump(id) ==
    /\ child[id].state = "setup_up"
    /\ child' = [child EXCEPT ![id].state = "pump"]
    /\ UNCHANGED pipe
    /\ ChildUnchanged

(* the relay writes a chunk to one of its output pipes *)
RelayWrite(id, p, kind) ==
    /\ child[id].state = "pump"
    /\ kind \in Kinds(p)
    /\ TotalWritten < MaxOut
    /\ pipe' = [pipe EXCEPT ![id][p] =
                  Append(@, [pipe |-> p, n |-> child[id].wrote[p] + 1, kind |-> kind])]
    /\ child' = [child EXCEPT ![id].wrote[p] = @ + 1]
    /\ ChildUnchanged

(* What an OS pipe holds before a write to it blocks, in chunks *)
PipeCap == 1

(* a relay whose remote command never stops printing writes the next chunk  *)
(* of the same text to its stdout as soon as the pipe takes it              *)
RelayFlood(id) ==
    /\ child[id].state = "pump"
    /\ Len(pipe[id]["stdout"]) < PipeCap
    /\ pipe' = [pipe EXCEPT ![id]["stdout"] =
                  Append(@, [pipe |-> "stdout", n |-> 0, kind |-> "txt"])]
    /\ UNCHANGED child
    /\ ChildUnchanged

(* the relay leaves its pump loops and exits; its pipes close *)
RelayExit(id) ==
    /\ child[id].state = "pump"
    /\ child' = [child EXCEPT ![id].state = "exiting", ![id].status = 0]
    /\ UNCHANGED pipe
    /\ ChildUnchanged

(* the exited process becomes waitable *)
ChildZombie(id) ==
    /\ child[id].state = "exiting"
    /\ child' = [child EXCEPT ![id].state = "zombie"]
    /\ UNCHANGED pipe
    /\ ChildUnchanged

----------------------------------------------------------------------------
(* Inside the relay process: relay_mode::run_from_env.  child[id].relay     *)
(* holds its position, the running flag shared by its two pump threads,     *)
(* the bytes waiting on its standard input and on the remote channel, and   *)
(* what it has read and written so far.                                     *)

MaxBytes == 2     \* bytes each side sends to the relay in one run

RelayBytes == {97, 98}

(* The operations of run_from_env before the pump, in program order *)
SetupSteps ==
    <<"env", "connect", "handshake", "agent", "password", "channel", "pty", "shell">>

(* A relay that tries the password whenever there is one *)
TryPasswordAlways(authenticated, pass) == pass

(* if !authenticated && !pass.is_empty() *)
TryPassword(authenticated, pass) == ~authenticated /\ pass

(* The operation after step, "fatal" for a failure that ends the process *)
AfterStep(step, ok, pass) ==
    CASE step = "env" -> IF ok THEN "connect" ELSE "fatal"
      [] step = "connect" -> IF ok THEN "handshake" ELSE "fatal"
      [] step = "handshake" -> IF ok THEN "agent" ELSE "fatal"
      [] step = "agent" -> IF TryPassword(ok, pass) THEN "password"
                           ELSE IF ~ok THEN "fatal" ELSE "channel"
      [] step = "password" -> IF ok THEN "channel" ELSE "fatal"
      [] step = "channel" -> IF ok THEN "pty" ELSE "fatal"
      [] step = "pty" -> IF ok THEN "shell" ELSE "fatal"
      [] step = "shell" -> IF ok THEN "pump" ELSE "fatal"

(* The relay as spawn_relay_child starts it; pass: TERMISSH_PASS is set to  *)
(* a non-empty password                                                     *)
RelayStart(pass) == [NoRelay EXCEPT !.step = "env", !.pass = pass]

(* let channel = Arc::new(..); let running = Arc::new(AtomicBool::new(true)) *)
(* and the two thread::spawn                                                *)
PumpStart(r) ==
    [r EXCEPT !.step = "pump", !.running = TRUE,
              !.out_pc = "load", !.in_pc = "load", !.main_pc = "join_out"]

RelayInside ==
    UNCHANGED <<app, pc, terminal_tabs, active_tab, tab_counter,
                terminal_runtime, scroll_mode, dialog,
                custom_commands, reader, poll, closing, task, written,
                stdin_pipe>>

(* One operation of run_from_env before the pump; ok: it succeeded.  A      *)
(* failure goes through fatal(): a message on stderr and exit(1).           *)
RelaySetup(id, ok) ==
    /\ InSetup(child[id])
    /\ LET r == child[id].relay
           next == AfterStep(r.step, ok, r.pass)
           logged == [r EXCEPT !.log = Append(@, [op |-> r.step, ok |-> ok])]
       IN  /\ \E k \in 1..Len(SetupSteps) : SetupSteps[k] = r.step
           /\ IF next = "fatal"
              THEN /\ pipe' = [pipe EXCEPT ![id]["stderr"] =
                                 Append(@, [pipe |-> "stderr",
                                            n |-> child[id].wrote["stderr"] + 1,
                                            kind |-> "txt"])]
                   /\ child' = [child EXCEPT
                                  ![id].state = "exiting",
                                  ![id].status = 1,
                                  ![id].wrote["stderr"] = @ + 1,
                                  ![id].relay = [logged EXCEPT !.step = "exit"]]
              ELSE /\ pipe' = pipe
                   /\ child' = [child EXCEPT
                                  ![id].state = IF next = "pump" THEN "pump" ELSE @,
                                  ![id].relay = IF next = "pump" THEN PumpStart(logged)
                                                ELSE [logged EXCEPT !.step = next]]
    /\ RelayInside

(* while r1.load(Ordering::Relaxed) *)
StdoutLoad(id) ==
    /\ child[id].state = "pump"
    /\ child[id].relay.out_pc = "load"
    /\ child' = [child EXCEPT ![id].relay.out_pc =
                    IF child[id].relay.running THEN "read" ELSE "done"]
    /\ UNCHANGED pipe
    /\ RelayInside

(* ch.read(&mut buf) on the non-blocking session and the match on its       *)
(* result: Err, Ok(n) with the write to stdout, Ok(0), or WouldBlock        *)
StdoutRead(id, n) ==
    /\ child[id].state = "pump"
    /\ child[id].relay.out_pc = "read"
    /\ LET r == child[id].relay
       IN  child' = [child EXCEPT ![id].relay =
              IF r.remote_err
              THEN [r EXCEPT !.running = FALSE, !.out_pc = "done",
                             !.stop = @ \cup {"channel_error"}]
              ELSE IF r.remote /= <<>>
              THEN LET m == IF n <= Len(r.remote) THEN n ELSE Len(r.remote)
                   IN  [r EXCEPT !.got_ch = @ \o SubSeq(r.remote, 1, m),
                                 !.out = @ \o SubSeq(r.remote, 1, m),
                                 !.remote = SubSeq(@, m + 1, Len(@)),
                                 !.out_pc = "eof"]
              ELSE IF r.remote_eof
              THEN [r EXCEPT !.running = FALSE, !.out_pc = "done",
                             !.stop = @ \cup {"channel_eof"}]
              ELSE [r EXCEPT !.out_pc = "eof"]]
    /\ UNCHANGED pipe
    /\ RelayInside

(* if ch_read.lock().unwrap().eof() *)
StdoutEof(id) ==
    /\ child[id].state = "pump"
    /\ child[id].relay.out_pc = "eof"
    /\ LET r == child[id].relay
       IN  child' = [child EXCEPT ![id].relay =
              IF r.remote_eof /\ r.remote = <<>> /\ ~r.remote_err
              THEN [r EXCEPT !.running = FALSE, !.out_pc = "done",
                             !.stop = @ \cup {"channel_eof"}]
              ELSE [r EXCEPT !.out_pc = "load"]]
    /\ UNCHANGED pipe
    /\ RelayInside

(* while r2.load(Ordering::Relaxed) *)
StdinLoad(id) ==
    /\ child[id].state = "pump"
    /\ child[id].relay.in_pc = "load"
    /\ child' = [child EXCEPT ![id].relay.in_pc =
                    IF child[id].relay.running THEN "read" ELSE "done"]
    /\ UNCHANGED pipe
    /\ RelayInside

(* let _ = ch.write_all(&buf[..n]) on the non-blocking session: the write   *)
(* that would block returns an error after k bytes, and the error is        *)
(* dropped                                                                  *)
WriteAll(bytes, k) == SubSeq(bytes, 1, k)

(* stdin.lock().read(&mut buf), a blocking read, and the match on its       *)
(* result: Ok(n) with the write to the channel, or Ok(0)                    *)
StdinRead(id, n, k) ==
    /\ child[id].state = "pump"
    /\ child[id].relay.in_pc = "read"
    /\ LET r == child[id].relay
       IN  /\ r.stdin /= <<>> \/ ~r.stdin_open
           /\ r.stdin /= <<>> => n \in 1..Len(r.stdin) /\ k \in 0..n
           /\ r.stdin = <<>> => n = 1 /\ k = 0
           /\ child' = [child EXCEPT ![id].relay =
                 IF r.stdin /= <<>>
                 THEN [r EXCEPT !.got_in = @ \o SubSeq(r.stdin, 1, n),
                                !.sent = @ \o WriteAll(SubSeq(r.stdin, 1, n), k),
                                !.stdin = SubSeq(@, n + 1, Len(@)),
                                !.in_pc = "load"]
                 ELSE [r EXCEPT !.running = FALSE, !.in_pc = "done",
                                !.stop = @ \cup {"stdin_eof"}]]
    /\ UNCHANGED pipe
    /\ RelayInside

(* let _ = stdout_thread.join(); running.store(false, Ordering::Relaxed); *)
RelayJoinStdout(id) ==
    /\ child[id].state = "pump"
    /\ child[id].relay.main_pc = "join_out"
    /\ child[id].relay.out_pc = "done"
    /\ child' = [child EXCEPT ![id].relay.running = FALSE,
                              ![id].relay.main_pc = "join_in"]
    /\ UNCHANGED pipe
    /\ RelayInside

(* let _ = stdin_thread.join(); and the return from run_from_env: the       *)
(* process ends with status 0                                               *)
RelayJoinStdin(id) ==
    /\ child[id].state = "pump"
    /\ child[id].relay.main_pc = "join_in"
    /\ child[id].relay.in_pc = "done"
    /\ child' = [child EXCEPT ![id].state = "exiting",
                              ![id].status = 0,
                              ![id].relay.main_pc = "done",
                              ![id].relay.step = "exit"]
    /\ UNCHANGED pipe
    /\ RelayInside

(* The host application writes a byte to the relay's stdin *)
HostWrites(id, b) ==
    /\ child[id].state \in {"setup_up", "setup_down", "pump"}
    /\ child[id].relay.step /= "none"
    /\ child[id].relay.stdin_open
    /\ Len(child[id].relay.got_in) + Len(child[id].relay.stdin) < MaxBytes
    /\ child' = [child EXCEPT ![id].relay.stdin = Append(@, b)]
    /\ UNCHANGED pipe
    /\ RelayInside

(* The host application drops the relay's stdin handle *)
HostClosesStdin(id) ==
    /\ child[id].state \in {"setup_up", "setup_down", "pump"}
    /\ child[id].relay.step /= "none"
    /\ child[id].relay.stdin_open
    /\ child' = [child EXCEPT ![id].relay.stdin_open = FALSE]
    /\ UNCHANGED pipe
    /\ RelayInside

(* The remote shell's output arrives on the channel *)
RemoteSends(id, b) ==
    /\ child[id].state = "pump"
    /\ ~child[id].relay.remote_eof
    /\ Len(child[id].relay.got_ch) + Len(child[id].relay.remote) < MaxBytes
    /\ child' = [child EXCEPT ![id].relay.remote = Append(@, b)]
    /\ UNCHANGED pipe
    /\ RelayInside

(* The remote shell ends: EOF on the channel *)
RemoteEof(id) ==
    /\ child[id].state = "pump"
    /\ ~child[id].relay.remote_eof
    /\ child' = [child EXCEPT ![id].relay.remote_eof = TRUE]
    /\ UNCHANGED pipe
    /\ RelayInside

(* The connection breaks: the next read of the channel returns an error *)
RemoteFails(id) ==
    /\ child[id].state = "pump"
    /\ ~child[id].relay.remote_err
    /\ child' = [child EXCEPT ![id].relay.remote_err = TRUE]
    /\ UNCHANGED pipe
    /\ RelayInside

----------------------------------------------------------------------------
----------------------------------------------------------------------------
(* The input pipeline: Message::TerminalSendBytes.  Strings are sequences   *)
(* of code points, byte strings sequences of bytes.                         *)

(* char::is_whitespace, for the code points of one- and two-byte UTF-8 *)
IsWhitespace(c) == c \in {9, 10, 11, 12, 13, 32, 133, 160}

(* str::trim *)
RECURSIVE TrimStart(_)
TrimStart(str) ==
    IF str /= <<>> /\ IsWhitespace(Head(str)) THEN TrimStart(Tail(str)) ELSE str

RECURSIVE TrimEnd(_)
TrimEnd(str) ==
    IF str /= <<>> /\ IsWhitespace(str[Len(str)])
    THEN TrimEnd(SubSeq(str, 1, Len(str) - 1))
    ELSE str

Trim(str) == TrimEnd(TrimStart(str))

IsCont(b) == b >= 128 /\ b <= 191

(* A decoding that takes every byte for a character *)
FromUtf8Bytewise(bytes) == [ok |-> TRUE, chars |-> bytes]

(* std::str::from_utf8: [ok, chars] *)
RECURSIVE FromUtf8(_)
FromUtf8(bytes) ==
    IF bytes = <<>> THEN [ok |-> TRUE, chars |-> <<>>]
    ELSE LET b == bytes[1]
             n == IF b < 128 THEN 1
                  ELSE IF b >= 194 /\ b <= 223 THEN 2
                  ELSE IF b >= 224 /\ b <= 239 THEN 3
                  ELSE IF b >= 240 /\ b <= 244 THEN 4
                  ELSE 0
             wellFormed ==
                /\ n /= 0
                /\ Len(bytes) >= n
                /\ \A i \in 2..n : IsCont(bytes[i])
                /\ b = 224 => bytes[2] >= 160
                /\ b = 237 => bytes[2] <= 159
                /\ b = 240 => bytes[2] >= 144
                /\ b = 244 => bytes[2] <= 143
             c == CASE n = 1 -> b
                    [] n = 2 -> (b - 192) * 64 + (bytes[2] - 128)
                    [] n = 3 -> (b - 224) * 4096 + (bytes[2] - 128) * 64
                                + (bytes[3] - 128)
                    [] OTHER -> (b - 240) * 262144 + (bytes[2] - 128) * 4096
                                + (bytes[3] - 128) * 64 + (bytes[4] - 128)
         IN  IF ~wellFormed THEN [ok |-> FALSE, chars |-> <<>>]
             ELSE LET rest == FromUtf8(SubSeq(bytes, n + 1, Len(bytes)))
                  IN  [ok |-> rest.ok,
                       chars |-> IF rest.ok THEN <<c>> \o rest.chars ELSE <<>>]

(* String::as_bytes, for code points below 65536 *)
RECURSIVE AsBytes(_)
AsBytes(str) ==
    IF str = <<>> THEN <<>>
    ELSE (IF Head(str) < 128 THEN <<Head(str)>>
          ELSE IF Head(str) < 2048
          THEN <<192 + (Head(str) \div 64), 128 + (Head(str) % 64)>>
          ELSE <<224 + (Head(str) \div 4096), 128 + ((Head(str) \div 64) % 64),
                 128 + (Head(str) % 64)>>)
         \o AsBytes(Tail(str))

(* An alias lookup that takes the last entry with the trigger *)
FindLastCustom(buffer) ==
    LET hits == {i \in 1..Len(custom_commands) : custom_commands[i].trigger = buffer}
    IN  IF hits = {} THEN 0 ELSE CHOOSE i \in hits : \A j \in hits : j <= i

(* self.config.custom_commands.iter().find(|c| c.trigger == buffer): the    *)
(* index of the first entry with the trigger, 0 for None                    *)
FindCustom(buffer) ==
    LET hits == {i \in 1..Len(custom_commands) : custom_commands[i].trigger = buffer}
    IN  IF hits = {} THEN 0 ELSE CHOOSE i \in hits : \A j \in hits : i <= j

(* The replacement without the leading Ctrl+U *)
ReplacementNoClear(cc) == AsBytes(cc.script) \o <<13>>

(* vec![21u8] + cc.script.as_bytes() + b'\r' *)
Replacement(cc) == <<21>> \o AsBytes(cc.script) \o <<13>>

HistoryCap == 50

(* A push that never drops the oldest entry *)
PushHistoryNoCap(history, buffer) ==
    IF history /= <<>> /\ history[Len(history)] = buffer THEN history
    ELSE Append(history, buffer)

(* tab.command_history after an Enter that matched no alias *)
PushHistory(history, buffer) ==
    IF history /= <<>> /\ history[Len(history)] = buffer THEN history
    ELSE LET pushed == Append(history, buffer)
         IN  IF Len(pushed) > HistoryCap THEN Tail(pushed) ELSE pushed

(* Phase 1 of TerminalSendBytes: the tab after the echo-buffer tracking *)
TrackInput(tab, bytes) ==
    IF Len(bytes) = 1 /\ bytes[1] = 13
    THEN LET buffer == Trim(tab.input_buffer)
         IN  [tab EXCEPT
                !.command_history =
                    IF buffer /= <<>> /\ FindCustom(buffer) = 0
                    THEN PushHistory(@, buffer) ELSE @,
                !.input_buffer = <<>>]
    ELSE IF Len(bytes) = 1
    THEN CASE bytes[1] = 127 ->
                [tab EXCEPT !.input_buffer =
                                IF @ = <<>> THEN @ ELSE SubSeq(@, 1, Len(@) - 1),
                            !.suggestion_index = 0]
           [] bytes[1] \in {3, 21, 27} ->
                [tab EXCEPT !.input_buffer = <<>>, !.suggestion_index = 0]
           [] bytes[1] >= 32 /\ bytes[1] /= 127 ->
                [tab EXCEPT !.input_buffer = Append(@, bytes[1]),
                            !.suggestion_index = 0]
           [] OTHER -> tab
    ELSE IF bytes = <<>> THEN tab
    ELSE IF bytes[1] = 27
    THEN [tab EXCEPT !.input_buffer = <<>>, !.suggestion_index = 0]
    ELSE IF (\A i \in 1..Len(bytes) : bytes[i] >= 32) /\ FromUtf8(bytes).ok
    THEN [tab EXCEPT !.input_buffer = @ \o FromUtf8(bytes).chars,
                     !.suggestion_index = 0]
    ELSE tab

(* Phase 1 of TerminalSendBytes: the bytes that go out *)
OutgoingBytes(tab, bytes) ==
    IF Len(bytes) = 1 /\ bytes[1] = 13 /\ FindCustom(Trim(tab.input_buffer)) /= 0
    THEN Replacement(custom_commands[FindCustom(Trim(tab.input_buffer))])
    ELSE bytes

ActiveValid == active_tab \in 1..Len(terminal_tabs)

(* What a handler leaves behind: the tabs, its write to a relay stdin and   *)
(* the Task it returns                                                      *)
Outcome(tabs, w, t) == [tabs |-> tabs, written |-> w, task |-> t]

(* return Task::none() with nothing touched *)
Nothing == Outcome(terminal_tabs, NoWrite, "none")

(* What the handler has assigned when it returns with outcome o and scroll  *)
(* mode sm                                                                  *)
Leaves(o, sm) ==
    /\ terminal_tabs' = o.tabs
    /\ written' = o.written
    /\ task' = o.task
    /\ scroll_mode' = sm
    /\ UNCHANGED <<app, active_tab, tab_counter, terminal_runtime, dialog,
                   custom_commands, child, pipe, reader, poll, closing>>

(* The handler returns with outcome o and scroll mode sm *)
Finish(o, sm) ==
    /\ Leaves(o, sm)
    /\ pc' = IF o.task = "none" THEN "idle" ELSE "task"
    /\ UNCHANGED stdin_pipe

(* A write to the session's relay whether or not it has a runtime *)
StdinWriteAny(tab, bytes) == [id |-> tab.id, bytes |-> bytes]

(* if let Some(runtime) = self.terminal_runtime.get(&tab.id): the bytes go   *)
(* to that runtime's stdin under its lock, in one write_all; without a      *)
(* runtime nothing is written                                               *)
StdinWrite(tab, bytes) ==
    IF HasRuntime(tab.id) THEN [id |-> tab.id, bytes |-> bytes] ELSE NoWrite

(* The body of Message::TerminalSendBytes(bytes), with scroll mode sm *)
SendBytesOutcome(bytes, sm) ==
    IF dialog /= "None" THEN Nothing
    ELSE LET tab == terminal_tabs[active_tab]
             out == IF ActiveValid THEN OutgoingBytes(tab, bytes) ELSE bytes
             live == ActiveValid /\ HasRuntime(tab.id)
             snap == live /\ ~terminal_runtime[tab.id].parser.alt /\ ~sm
         IN  Outcome(IF ActiveValid
                     THEN [terminal_tabs EXCEPT ![active_tab] = TrackInput(tab, bytes)]
                     ELSE terminal_tabs,
                     IF ActiveValid THEN StdinWrite(tab, out) ELSE NoWrite,
                     IF snap THEN "snap_bottom" ELSE "none")

(* Message::TerminalSendBytes(bytes) *)
TerminalSendBytes(bytes) ==
    /\ UiIdle
    /\ Finish(SendBytesOutcome(bytes, scroll_mode), scroll_mode)

(* Message::OpenCustomCommands *)
OpenCustomCommands ==
    /\ UiIdle
    /\ dialog' = "CustomCommands"
    /\ task' = "none"
    /\ written' = NoWrite
    /\ UNCHANGED stdin_pipe
    /\ UNCHANGED <<app, pc, terminal_tabs, active_tab, tab_counter,
                   terminal_runtime, scroll_mode, custom_commands, child, pipe,
                   reader, poll, closing>>

(* Message::CloseDialog *)
CloseDialog ==
    /\ UiIdle
    /\ dialog' = "None"
    /\ task' = "none"
    /\ written' = NoWrite
    /\ UNCHANGED stdin_pipe
    /\ UNCHANGED <<app, pc, terminal_tabs, active_tab, tab_counter,
                   terminal_runtime, scroll_mode, custom_commands, child, pipe,
                   reader, poll, closing>>

----------------------------------------------------------------------------
(* Command suggestions *)

(* char::to_lowercase, for the code points below 256 *)
ToLower(c) ==
    IF c \in 65..90 \/ (c \in 192..222 /\ c /= 215) THEN c + 32 ELSE c

(* char::to_lowercase as the string it yields: U+0130 lowers to "i" and    *)
(* U+0307, two characters and three bytes where the capital has two bytes   *)
LowerChar(c) == IF c = 304 THEN <<105, 775>> ELSE <<ToLower(c)>>

(* str::to_lowercase *)
RECURSIVE Lower(_)
Lower(str) == IF str = <<>> THEN <<>> ELSE LowerChar(Head(str)) \o Lower(Tail(str))

(* str::starts_with *)
StartsWith(str, prefix) ==
    Len(prefix) <= Len(str) /\ SubSeq(str, 1, Len(prefix)) = prefix

(* Iterator::rev *)
Reverse(s) == [i \in 1..Len(s) |-> s[Len(s) + 1 - i]]

(* Iterator::take *)
Take(s, n) == SubSeq(s, 1, IF n < Len(s) THEN n ELSE Len(s))

(* suggestions.iter().any(|s| s == x) *)
Contains(s, x) == \E i \in 1..Len(s) : s[i] = x

(* BUILT_IN_SUGGESTIONS, each name as its code points, one row for each     *)
(* line of the table                                                        *)
BuiltInRows ==
    <<
       (* nano vim vi nvim emacs *)
       << <<110, 97, 110, 111>>,
          <<118, 105, 109>>,
          <<118, 105>>,
          <<110, 118, 105, 109>>,
          <<101, 109, 97, 99, 115>> >>,
       (* ls la ll cd cp mv rm mkdir touch cat less *)
       << <<108, 115>>,
          <<108, 97>>,
          <<108, 108>>,
          <<99, 100>>,
          <<99, 112>>,
          <<109, 118>>,
          <<114, 109>>,
          <<109, 107, 100, 105, 114>>,
          <<116, 111, 117, 99, 104>>,
          <<99, 97, 116>>,
          <<108, 101, 115, 115>> >>,
       (* head tail grep find chmod chown ln stat wc sort uniq *)
       << <<104, 101, 97, 100>>,
          <<116, 97, 105, 108>>,
          <<103, 114, 101, 112>>,
          <<102, 105, 110, 100>>,
          <<99, 104, 109, 111, 100>>,
          <<99, 104, 111, 119, 110>>,
          <<108, 110>>,
          <<115, 116, 97, 116>>,
          <<119, 99>>,
          <<115, 111, 114, 116>>,
          <<117, 110, 105, 113>> >>,
       (* ps top htop kill killall jobs bg fg nohup *)
       << <<112, 115>>,
          <<116, 111, 112>>,
          <<104, 116, 111, 112>>,
          <<107, 105, 108, 108>>,
          <<107, 105, 108, 108, 97, 108, 108>>,
          <<106, 111, 98, 115>>,
          <<98, 103>>,
          <<102, 103>>,
          <<110, 111, 104, 117, 112>> >>,
       (* ssh scp rsync curl wget ping netstat ss ip *)
       << <<115, 115, 104>>,
          <<115, 99, 112>>,
          <<114, 115, 121, 110, 99>>,
          <<99, 117, 114, 108>>,
          <<119, 103, 101, 116>>,
          <<112, 105, 110, 103>>,
          <<110, 101, 116, 115, 116, 97, 116>>,
          <<115, 115>>,
          <<105, 112>> >>,
       (* apt apt-get yum dnf pacman pip pip3 npm yarn cargo *)
       << <<97, 112, 116>>,
          <<97, 112, 116, 45, 103, 101, 116>>,
          <<121, 117, 109>>,
          <<100, 110, 102>>,
          <<112, 97, 99, 109, 97, 110>>,
          <<112, 105, 112>>,
          <<112, 105, 112, 51>>,
          <<110, 112, 109>>,
          <<121, 97, 114, 110>>,
          <<99, 97, 114, 103, 111>> >>,
       (* git docker kubectl systemctl service journalctl *)
       << <<103, 105, 116>>,
          <<100, 111, 99, 107, 101, 114>>,
          <<107, 117, 98, 101, 99, 116, 108>>,
          <<115, 121, 115, 116, 101, 109, 99, 116, 108>>,
          <<115, 101, 114, 118, 105, 99, 101>>,
          <<106, 111, 117, 114, 110, 97, 108, 99, 116, 108>> >>,
       (* df du free uptime who whoami uname hostname *)
       << <<100, 102>>,
          <<100, 117>>,
          <<102, 114, 101, 101>>,
          <<117, 112, 116, 105, 109, 101>>,
          <<119, 104, 111>>,
          <<119, 104, 111, 97, 109, 105>>,
          <<117, 110, 97, 109, 101>>,
          <<104, 111, 115, 116, 110, 97, 109, 101>> >>,
       (* tar zip unzip gzip gunzip xz *)
       << <<116, 97, 114>>,
          <<122, 105, 112>>,
          <<117, 110, 122, 105, 112>>,
          <<103, 122, 105, 112>>,
          <<103, 117, 110, 122, 105, 112>>,
          <<120, 122>> >>,
       (* python python3 node ruby php bash sh zsh fish *)
       << <<112, 121, 116, 104, 111, 110>>,
          <<112, 121, 116, 104, 111, 110, 51>>,
          <<110, 111, 100, 101>>,
          <<114, 117, 98, 121>>,
          <<112, 104, 112>>,
          <<98, 97, 115, 104>>,
          <<115, 104>>,
          <<122, 115, 104>>,
          <<102, 105, 115, 104>> >>,
       (* sudo su exit logout clear history env export echo *)
       << <<115, 117, 100, 111>>,
          <<115, 117>>,
          <<101, 120, 105, 116>>,
          <<108, 111, 103, 111, 117, 116>>,
          <<99, 108, 101, 97, 114>>,
          <<104, 105, 115, 116, 111, 114, 121>>,
          <<101, 110, 118>>,
          <<101, 120, 112, 111, 114, 116>>,
          <<101, 99, 104, 111>> >>,
       (* source which whereis man alias unset set *)
       << <<115, 111, 117, 114, 99, 101>>,
          <<119, 104, 105, 99, 104>>,
          <<119, 104, 101, 114, 101, 105, 115>>,
          <<109, 97, 110>>,
          <<97, 108, 105, 97, 115>>,
          <<117, 110, 115, 101, 116>>,
          <<115, 101, 116>> >>,
       (* mysql psql redis-cli mongo *)
       << <<109, 121, 115, 113, 108>>,
          <<112, 115, 113, 108>>,
          <<114, 101, 100, 105, 115, 45, 99, 108, 105>>,
          <<109, 111, 110, 103, 111>> >>
    >>

RECURSIVE Flatten(_)
Flatten(rows) == IF rows = <<>> THEN <<>> ELSE Head(rows) \o Flatten(Tail(rows))

BUILT_IN_SUGGESTIONS == Flatten(BuiltInRows)

(* config.custom_commands.iter().map(|c| c.trigger.clone()).collect() *)
AliasTriggers == [i \in 1..Len(custom_commands) |-> custom_commands[i].trigger]

(* The matching history entries, oldest first *)
HistoryMatchesOldestFirst(tab) ==
    LET buf_lower == Lower(tab.input_buffer)
        Matches(cmd) == StartsWith(Lower(cmd), buf_lower) /\ Lower(cmd) /= buf_lower
    IN  Take(SelectSeq(tab.command_history, Matches), 4)

(* command_history.iter().rev().filter(..).take(4) *)
HistoryMatches(tab) ==
    LET buf_lower == Lower(tab.input_buffer)
        Matches(cmd) == StartsWith(Lower(cmd), buf_lower) /\ Lower(cmd) /= buf_lower
    IN  Take(SelectSeq(Reverse(tab.command_history), Matches), 4)

(* A candidate test that lets the buffer itself through *)
CandidateWithBuffer(c, buffer, suggestions) ==
    /\ StartsWith(Lower(c), Lower(buffer))
    /\ ~Contains(suggestions, c)

(* The test an alias trigger or a built-in name passes to be pushed *)
Candidate(c, buffer, suggestions) ==
    /\ StartsWith(Lower(c), Lower(buffer))
    /\ c /= buffer
    /\ ~Contains(suggestions, c)

(* for c in candidates { if suggestions.len() >= 8 { break; } .. push .. } *)
RECURSIVE PushCandidates(_, _, _)
PushCandidates(suggestions, candidates, buffer) ==
    IF candidates = <<>> \/ Len(suggestions) >= 8 THEN suggestions
    ELSE PushCandidates(
            IF Candidate(Head(candidates), buffer, suggestions)
            THEN Append(suggestions, Head(candidates))
            ELSE suggestions,
            Tail(candidates), buffer)

(* The loop over BUILT_IN_SUGGESTIONS, taken one row of the table at a time *)
RECURSIVE PushRows(_, _, _)
PushRows(suggestions, rows, buffer) ==
    IF rows = <<>> THEN suggestions
    ELSE LET pushed == PushCandidates(suggestions, Head(rows), buffer)
         IN  PushRows(pushed, Tail(rows), buffer)

compute_suggestions(tab, alias_triggers) ==
    IF tab.input_buffer = <<>> THEN <<>>
    ELSE PushRows(
            PushCandidates(HistoryMatches(tab), alias_triggers, tab.input_buffer),
            BuiltInRows, tab.input_buffer)

(* The index after a move; 0 is None, k is Some(k - 1) *)
MovedIndex(current, delta, len) ==
    IF current = 0 THEN (IF delta > 0 THEN 1 ELSE 0)
    ELSE LET next == (current - 1) + delta
         IN  IF next < 0 THEN 0
             ELSE (IF next < len - 1 THEN next ELSE len - 1) + 1

(* The body of Message::TerminalSuggestionMove(delta) *)
SuggestionMoveOutcome(delta) ==
    IF active_tab = 0 THEN Nothing
    ELSE LET tab == terminal_tabs[active_tab]
             suggestions == compute_suggestions(tab, AliasTriggers)
         IN  IF suggestions = <<>> THEN Nothing
             ELSE Outcome([terminal_tabs EXCEPT ![active_tab].suggestion_index =
                              MovedIndex(@, delta, Len(suggestions))],
                          NoWrite, "none")

(* Message::TerminalSuggestionMove(delta).  terminal_tabs[i] is indexed     *)
(* with the focus index, which the tab handlers keep inside the list.       *)
TerminalSuggestionMove(delta) ==
    /\ UiIdle
    /\ active_tab = 0 \/ ActiveValid
    /\ Finish(SuggestionMoveOutcome(delta), scroll_mode)

(* An acceptance that also sends the carriage return *)
AcceptBytesWithEnter(cmd) == <<21>> \o AsBytes(cmd) \o <<13>>

(* vec![21u8] + cmd.as_bytes() *)
AcceptBytes(cmd) == <<21>> \o AsBytes(cmd)

(* The body of Message::TerminalSuggestionAccept(cmd) *)
SuggestionAcceptOutcome(cmd) ==
    IF active_tab = 0 THEN Nothing
    ELSE LET tab == terminal_tabs[active_tab]
         IN  Outcome([terminal_tabs EXCEPT ![active_tab].input_buffer = cmd,
                                           ![active_tab].suggestion_index = 0],
                     StdinWrite(tab, AcceptBytes(cmd)),
                     "none")

(* Message::TerminalSuggestionAccept(cmd) *)
TerminalSuggestionAccept(cmd) ==
    /\ UiIdle
    /\ active_tab = 0 \/ ActiveValid
    /\ Finish(SuggestionAcceptOutcome(cmd), scroll_mode)

----------------------------------------------------------------------------
(* Keys: Message::TerminalKeyPressed and map_key_to_bytes *)

(* iced keyboard::Key: Key::Named(name) or Key::Character(ch) *)
Named(name) == [kind |-> "Named", name |-> name, ch |-> <<>>]
Character(ch) == [kind |-> "Character", name |-> "", ch |-> ch]

(* Option<Vec<u8>> *)
None == [some |-> FALSE, bytes |-> <<>>]
Some(bytes) == [some |-> TRUE, bytes |-> bytes]

(* The match arms of map_key_to_bytes for Key::Named *)
NamedBytes(name) ==
    CASE name = "Enter" -> Some(<<13>>)
      [] name = "Tab" -> Some(<<9>>)
      [] name = "Backspace" -> Some(<<127>>)
      [] name = "Escape" -> Some(<<27>>)
      [] name = "ArrowUp" -> Some(<<27, 91, 65>>)
      [] name = "ArrowDown" -> Some(<<27, 91, 66>>)
      [] name = "ArrowRight" -> Some(<<27, 91, 67>>)
      [] name = "ArrowLeft" -> Some(<<27, 91, 68>>)
      [] name = "Home" -> Some(<<27, 91, 72>>)
      [] name = "End" -> Some(<<27, 91, 70>>)
      [] name = "Delete" -> Some(<<27, 91, 51, 126>>)
      [] name = "Insert" -> Some(<<27, 91, 50, 126>>)
      [] name = "PageUp" -> Some(<<27, 91, 53, 126>>)
      [] name = "PageDown" -> Some(<<27, 91, 54, 126>>)
      [] name = "Space" -> Some(<<32>>)
      [] OTHER -> None

(* char::is_ascii_alphabetic *)
IsAsciiAlphabetic(c) == c \in 65..90 \/ c \in 97..122

(* char::to_ascii_lowercase *)
ToAsciiLowercase(c) == IF c \in 65..90 THEN c + 32 ELSE c

(* A control byte computed from the character as typed, in u8 arithmetic *)
CtrlByteOfCase(c) == (((c - 97) % 256) + 1) % 256

(* (c.to_ascii_lowercase() as u8 - b'a') + 1 *)
CtrlByte(c) == (ToAsciiLowercase(c) - 97) + 1

(* The bytes of the key before the Alt prefix *)
Mapped(key, modifiers) ==
    IF key.kind = "Named" THEN NamedBytes(key.name)
    ELSE IF modifiers.control
    THEN (IF key.ch /= <<>> /\ IsAsciiAlphabetic(Head(key.ch))
          THEN Some(<<CtrlByte(Head(key.ch))>>)
          ELSE None)
    ELSE Some(AsBytes(key.ch))

map_key_to_bytes(key, modifiers) ==
    LET mapped == Mapped(key, modifiers)
    IN  IF ~mapped.some THEN None
        ELSE IF modifiers.alt THEN Some(<<27>> \o mapped.bytes)
        ELSE mapped

(* The body of Message::TerminalFontSizeInc, Dec (step 1, -1) and Reset *)
FontSizeOutcome(step) ==
    IF active_tab = 0 THEN Nothing
    ELSE Outcome([terminal_tabs EXCEPT ![active_tab].font_size =
                     IF step = 0 THEN FontDefault
                     ELSE IF @ + step > FontMax THEN FontMax
                     ELSE IF @ + step < FontMin THEN FontMin
                     ELSE @ + step],
                 NoWrite, "none")

(* The body of Message::TerminalSearchToggle *)
SearchToggleOutcome ==
    IF active_tab = 0 THEN Nothing
    ELSE Outcome([terminal_tabs EXCEPT
                     ![active_tab].search_active = ~@,
                     ![active_tab].search_query =
                         IF terminal_tabs[active_tab].search_active THEN <<>> ELSE @],
                 NoWrite, "none")

(* The body of Message::TerminalSearchClose *)
SearchCloseOutcome ==
    IF active_tab = 0 THEN Nothing
    ELSE Outcome([terminal_tabs EXCEPT
                     ![active_tab].search_active = FALSE,
                     ![active_tab].search_query = <<>>],
                 NoWrite, "none")

(* A last step that sends whatever the mapping holds, bytes or not *)
SendAlways(mapped, sm) == SendBytesOutcome(mapped.bytes, sm)

(* if let Some(bytes) = map_key_to_bytes(key, modifiers) {                  *)
(*     return self.update(Message::TerminalSendBytes(bytes)); }             *)
SendMapped(mapped, sm) ==
    IF mapped.some THEN SendBytesOutcome(mapped.bytes, sm) ELSE Nothing

(* The keys that scroll the output while scroll mode is on *)
ScrollKeys == {"ArrowUp", "ArrowDown", "PageUp", "PageDown", "Home", "End"}

(* Scroll mode after its interception: Escape and characters leave it *)
ScrollModeAfter(key) ==
    IF scroll_mode /\ (key = Named("Escape") \/ key.kind = "Character")
    THEN FALSE ELSE scroll_mode

(* TerminalKeyPressed after the dialog check and the scroll-mode            *)
(* interception: shortcuts, suggestion navigation, search, then the bytes   *)
KeyPressedOutcome(key, modifiers, sm) ==
    LET ctrlChar == modifiers.control /\ key.kind = "Character"
        tab == terminal_tabs[active_tab]
        suggestions == compute_suggestions(tab, AliasTriggers)
        sugg_idx == IF active_tab /= 0 THEN tab.suggestion_index ELSE 0
    IN  IF ctrlChar /\ key.ch = <<102>> THEN SearchToggleOutcome
        ELSE IF ctrlChar /\ key.ch \in {<<61>>, <<43>>} THEN FontSizeOutcome(1)
        ELSE IF ctrlChar /\ key.ch = <<45>> THEN FontSizeOutcome(-1)
        ELSE IF ctrlChar /\ key.ch = <<48>> THEN FontSizeOutcome(0)
        ELSE IF ctrlChar /\ key.ch = <<118>>
        THEN Outcome(terminal_tabs, NoWrite, "clipboard_read")
        ELSE IF /\ modifiers.control /\ key = Named("Space")
                /\ active_tab /= 0 /\ suggestions /= <<>>
        THEN SuggestionMoveOutcome(1)
        ELSE IF sugg_idx /= 0 /\ key = Named("ArrowDown")
        THEN SuggestionMoveOutcome(1)
        ELSE IF sugg_idx /= 0 /\ key = Named("ArrowUp")
        THEN SuggestionMoveOutcome(-1)
        ELSE IF sugg_idx /= 0 /\ key = Named("Tab") /\ sugg_idx <= Len(suggestions)
        THEN SuggestionAcceptOutcome(suggestions[sugg_idx])
        ELSE IF sugg_idx /= 0 /\ key = Named("Escape")
        THEN Outcome([terminal_tabs EXCEPT ![active_tab].suggestion_index = 0],
                     NoWrite, "none")
        ELSE IF key = Named("Escape") /\ ActiveValid /\ tab.search_active
        THEN SearchCloseOutcome
        ELSE SendMapped(map_key_to_bytes(key, modifiers), sm)

(* Message::TerminalKeyPressed(key, modifiers) *)
TerminalKeyPressed(key, modifiers) ==
    /\ UiIdle
    /\ active_tab = 0 \/ ActiveValid
    /\ IF dialog /= "None" THEN Finish(Nothing, scroll_mode)
       ELSE IF scroll_mode /\ key.kind = "Named" /\ key.name \in ScrollKeys
       THEN Finish(Outcome(terminal_tabs, NoWrite, "scroll_to"), scroll_mode)
       ELSE IF scroll_mode /\ key.kind = "Named" /\ key /= Named("Escape")
       THEN Finish(Nothing, scroll_mode)
       ELSE Finish(KeyPressedOutcome(key, modifiers, ScrollModeAfter(key)),
                   ScrollModeAfter(key))

----------------------------------------------------------------------------
(* The reader workers and the relay processes run beside the UI thread *)
Background(pipes, kinds) ==
    \/ \E id \in Ids, p \in Pipes : ReaderStep(id, p)
    \/ \E id \in Ids : RelayFatal(id)
    \/ \E id \in Ids : RelayPump(id)
    \/ \E id \in Ids, p \in pipes, kind \in kinds : RelayWrite(id, p, kind)
    \/ \E id \in Ids : RelayExit(id)
    \/ \E id \in Ids : ChildZombie(id)

(* The 50 ms tick *)
TerminalPoll ==
    \/ \E ids \in Perms(DOMAIN terminal_runtime) : PollBegin(ids)
    \/ PollRecv
    \/ PollTryWait
    \/ PollFinish
    \/ RunTask

(* Sessions from connect to teardown.  The relay's output is plain text.    *)
Next ==
    \/ \E idx \in 1..Len(hosts), found \in BOOLEAN : ConnectToHost(idx, found, TRUE)
    \/ \E idx \in 1..MaxTabs : CloseTabTeardown(idx)
    \/ CloseTabRemove
    \/ DropApp
    \/ TerminalPoll
    \/ Background(Pipes, {"txt"})

Spec == Init /\ [][Next]_vars

(* Focus and scrolling: the sessions stay open, the user switches tabs and  *)
(* toggles manual scroll mode, the relay's output enters and leaves the     *)
(* alternate screen.                                                        *)
NextSnap ==
    \/ ConnectToHost(1, TRUE, TRUE)
    \/ \E idx \in 1..MaxTabs : SwitchTab(idx)
    \/ TerminalScrollModeToggle
    \/ TerminalPoll
    \/ \E id \in Ids : ReaderStep(id, "stdout") \/ ReaderStep(id, "stderr")
    \/ \E id \in Ids : RelayPump(id)
    \/ \E id \in Ids, kind \in AllKinds : RelayWrite(id, "stdout", kind)
    \/ \E id \in Ids : RelayExit(id)
    \/ \E id \in Ids : ChildZombie(id)

SpecSnap == Init /\ [][NextSnap]_vars

(* Relays launched against the unreachable host.  The tick comes every 50  *)
(* ms, a handler that has started runs to its end, a failing relay exits,   *)
(* and a reader thread that can make a pass makes it.                       *)
NextLive ==
    \/ ConnectToHost(2, TRUE, TRUE)
    \/ \E idx \in 1..MaxTabs : CloseTabTeardown(idx)
    \/ CloseTabRemove
    \/ DropApp
    \/ TerminalPoll
    \/ \E id \in Ids, p \in Pipes : ReaderStep(id, p)
    \/ \E id \in Ids : RelayFatal(id)
    \/ \E id \in Ids : ChildZombie(id)

SpecLive ==
    /\ Init
    /\ [][NextLive]_vars
    /\ WF_vars(TerminalPoll)
    /\ WF_vars(CloseTabRemove)
    /\ \A id \in Ids :
          /\ WF_vars(RelayFatal(id))
          /\ WF_vars(ChildZombie(id))
          /\ \A p \in Pipes : WF_vars(ReaderStep(id, p))

(* What the user sends to the focused session: Enter, letters, space,      *)
(* Backspace, Ctrl+C, Escape, Tab, an arrow key, a paste, a quick command.  *)
InputBytes ==
    { <<13>>, <<97>>, <<98>>, <<32>>, <<127>>, <<3>>, <<27>>, <<9>>,
      <<27, 91, 65>>, <<97, 98>>, <<98, 13>> }

(* The echo buffer and the history the model lets a session grow to *)
MaxBuf == 2
MaxHist == 1

InputFits ==
    \A i \in 1..Len(terminal_tabs') :
       /\ Len(terminal_tabs'[i].input_buffer) <= MaxBuf
       /\ Len(terminal_tabs'[i].command_history) <= MaxHist

(* Typing into the sessions: tabs are opened (the launch works or the relay *)
(* binary is missing), the user switches tabs, opens and closes a dialog,   *)
(* and sends bytes.                                                         *)
NextInput ==
    \/ \E found \in BOOLEAN : ConnectToHost(1, found, TRUE)
    \/ \E idx \in 1..MaxTabs : SwitchTab(idx)
    \/ OpenCustomCommands
    \/ CloseDialog
    \/ \E bytes \in InputBytes : TerminalSendBytes(bytes) /\ InputFits
    \/ RunTask

SpecInput == Init /\ [][NextInput]_vars

(* One-letter commands typed again and again: "c", "d", the alias trigger   *)
(* "a", a blank, Enter.                                                     *)
HistoryKeys == { <<13>>, <<97>>, <<99>>, <<100>>, <<32>> }

(* The echo buffer the model lets a session grow to while its history fills *)
MaxLine == 1

LineFits ==
    \A i \in 1..Len(terminal_tabs') :
       Len(terminal_tabs'[i].input_buffer) <= MaxLine

NextHistory ==
    \/ ConnectToHost(1, TRUE, TRUE)
    \/ \E bytes \in HistoryKeys : TerminalSendBytes(bytes) /\ LineFits
    \/ RunTask

SpecHistory == Init /\ [][NextHistory]_vars

(* Echo buffers and histories a session can have been typed into: the       *)
(* buffers "", "ls", "LS", "l", "s", "A", "x", "ls -la"; the histories      *)
(* (oldest first) [], [lsof, ls -la], [ls -la, lsof],                       *)
(* [ls, lsof, ls, ls -la, ls], [ss, su, sh, sort, stat], [LSOF, cd, lsof].  *)
SuggestBuffers ==
    { <<>>,
      <<108, 115>>,
      <<76, 83>>,
      <<108>>,
      <<115>>,
      <<65>>,
      <<120>>,
      <<108, 115, 32, 45, 108, 97>> }

SuggestHistories ==
    { <<>>,
      <<<<108, 115, 111, 102>>, <<108, 115, 32, 45, 108, 97>>>>,
      <<<<108, 115, 32, 45, 108, 97>>, <<108, 115, 111, 102>>>>,
      <<<<108, 115>>, <<108, 115, 111, 102>>, <<108, 115>>, <<108, 115, 32, 45, 108, 97>>, <<108, 115>>>>,
      <<<<115, 115>>, <<115, 117>>, <<115, 104>>, <<115, 111, 114, 116>>, <<115, 116, 97, 116>>>>,
      <<<<76, 83, 79, 70>>, <<99, 100>>, <<108, 115, 111, 102>>>> }

(* A second alias table, with the triggers "lsof", "ll", "ls" and "LS" *)
LsAliases ==
    << [trigger |-> <<108, 115, 111, 102>>, script |-> <<120>>],
       [trigger |-> <<108, 108>>, script |-> <<120>>],
       [trigger |-> <<108, 115>>, script |-> <<120>>],
       [trigger |-> <<76, 83>>, script |-> <<120>>] >>

(* One session has been opened and typed into: its echo buffer is b, its   *)
(* history h, and the alias table is cc.                                    *)
InitOneTab(b, h, cc) ==
    /\ app = "running"
    /\ pc = "idle"
    /\ terminal_tabs = << [NewTab(1, TRUE, "None") EXCEPT
                              !.input_buffer = b, !.command_history = h] >>
    /\ active_tab = 1
    /\ tab_counter = 1
    /\ terminal_runtime = [id \in {1} |-> [rx |-> <<>>, parser |-> NewParser]]
    /\ scroll_mode = FALSE
    /\ dialog = "None"
    /\ custom_commands = cc
    /\ child = [id \in Ids |->
                   IF id = 1 THEN [NoChild EXCEPT !.state = Setup("up")] ELSE NoChild]
    /\ pipe = [id \in Ids |-> [p \in Pipes |-> <<>>]]
    /\ reader = [id \in Ids |->
                    [p \in Pipes |-> IF id = 1 THEN "running" ELSE "none"]]
    /\ poll = PollIdle
    /\ closing = NoClosing
    /\ task = "none"
    /\ written = NoWrite
    /\ stdin_pipe = NoStdin

InitSuggest ==
    \E b \in SuggestBuffers, h \in SuggestHistories, cc \in {AliasTable, LsAliases} :
       InitOneTab(b, h, cc)

(* The suggestions the view offers for the focused session *)
Offered ==
    IF ActiveValid
    THEN LET sugg == compute_suggestions(terminal_tabs[active_tab], AliasTriggers)
         IN  {sugg[i] : i \in 1..Len(sugg)}
    ELSE {}

NextSuggest ==
    \/ \E delta \in {-1, 1} : TerminalSuggestionMove(delta)
    \/ \E cmd \in Offered : TerminalSuggestionAccept(cmd)

SpecSuggest == InitSuggest /\ [][NextSuggest]_vars

(* The rule table of the echo buffer, on one session: what SpecInput sends  *)
(* and also the single byte 0xC8, the UTF-8 text "e-acute" and a byte       *)
(* string that is not UTF-8; the suggestion selection is moved.             *)
TableBytes == InputBytes \cup { <<200>>, <<195, 169>>, <<200, 97>> }

InitTable == InitOneTab(<<>>, <<>>, AliasTable)

NextTable ==
    \/ \E bytes \in TableBytes : TerminalSendBytes(bytes) /\ InputFits
    \/ \E delta \in {-1, 1} : TerminalSuggestionMove(delta)
    \/ OpenCustomCommands
    \/ CloseDialog
    \/ RunTask

SpecTable == InitTable /\ [][NextTable]_vars

(* Key presses on a second session, its font one step below the largest,    *)
(* the first session left with typed input:                                 *)
(* named keys with and without a byte mapping, the characters "a", "C",     *)
(* "f", "v", "=", "1" and "e-acute", each with and without Control and Alt. *)
Keys ==
    {Named(n) : n \in {"Enter", "Tab", "Backspace", "Escape", "ArrowUp",
                        "ArrowDown", "Space", "F1", "Shift"}}
    \cup {Character(c) : c \in {<<97>>, <<67>>, <<102>>, <<118>>, <<61>>,
                                 <<49>>, <<233>>}}

Modifiers == [control : BOOLEAN, alt : BOOLEAN]

InitKeys ==
    /\ app = "running"
    /\ pc = "idle"
    /\ terminal_tabs = << [NewTab(1, TRUE, "None") EXCEPT
                              !.input_buffer = <<98>>,
                              !.command_history = << <<99>> >>],
                          [NewTab(2, TRUE, "None") EXCEPT
                              !.font_size = FontMax - 1] >>
    /\ active_tab = 2
    /\ tab_counter = 2
    /\ terminal_runtime = [id \in {1, 2} |-> [rx |-> <<>>, parser |-> NewParser]]
    /\ scroll_mode = FALSE
    /\ dialog = "None"
    /\ custom_commands = AliasTable
    /\ child = [id \in Ids |->
                   IF id \in {1, 2} THEN [NoChild EXCEPT !.state = Setup("up")]
                   ELSE NoChild]
    /\ pipe = [id \in Ids |-> [p \in Pipes |-> <<>>]]
    /\ reader = [id \in Ids |->
                    [p \in Pipes |-> IF id \in {1, 2} THEN "running" ELSE "none"]]
    /\ poll = PollIdle
    /\ closing = NoClosing
    /\ task = "none"
    /\ written = NoWrite
    /\ stdin_pipe = NoStdin

KeysFit ==
    /\ LineFits
    /\ \A i \in 1..Len(terminal_tabs') :
          Len(terminal_tabs'[i].command_history) <= MaxHist

NextKeys ==
    \/ \E key \in Keys, modifiers \in Modifiers :
          TerminalKeyPressed(key, modifiers) /\ KeysFit
    \/ TerminalScrollModeToggle
    \/ OpenCustomCommands
    \/ CloseDialog
    \/ RunTask

SpecKeys == InitKeys /\ [][NextKeys]_vars

(* Clearing: sessions are opened, the relays write and exit, the user       *)
(* switches tabs and clears the focused one between the ticks.              *)
NextClear ==
    \/ ConnectToHost(1, TRUE, TRUE)
    \/ \E idx \in 1..MaxTabs : SwitchTab(idx)
    \/ TerminalClear
    \/ TerminalPoll
    \/ \E id \in Ids, p \in Pipes : ReaderStep(id, p)
    \/ \E id \in Ids : RelayPump(id)
    \/ \E id \in Ids, kind \in AllKinds : RelayWrite(id, "stdout", kind)
    \/ \E id \in Ids : RelayExit(id)
    \/ \E id \in Ids : ChildZombie(id)

SpecClear == Init /\ [][NextClear]_vars

(* Launching: every outcome of a connect attempt, closing, and the relays   *)
(* that were started.                                                       *)
NextLaunch ==
    \/ \E idx \in 1..Len(hosts), found \in BOOLEAN, spawned \in BOOLEAN,
          piped \in BOOLEAN : ConnectToHostWith(idx, found, spawned, piped)
    \/ \E idx \in 1..MaxTabs : CloseTabTeardown(idx)
    \/ CloseTabRemove
    \/ \E idx \in 1..MaxTabs : SwitchTab(idx)
    \/ TerminalPoll
    \/ \E id \in Ids, p \in Pipes : ReaderStep(id, p)
    \/ \E id \in Ids : RelayFatal(id)
    \/ \E id \in Ids : RelayPump(id)
    \/ \E id \in Ids : RelayExit(id)
    \/ \E id \in Ids : ChildZombie(id)

SpecLaunch == Init /\ [][NextLaunch]_vars

(* One relay, from its start to its exit, with the host application and    *)
(* the remote shell as its environment.                                     *)
InitRelay ==
    /\ app = "running"
    /\ pc = "idle"
    /\ terminal_tabs = << NewTab(1, TRUE, "None") >>
    /\ active_tab = 1
    /\ tab_counter = 1
    /\ terminal_runtime = [id \in {1} |-> [rx |-> <<>>, parser |-> NewParser]]
    /\ scroll_mode = FALSE
    /\ dialog = "None"
    /\ custom_commands = AliasTable
    /\ \E pass \in BOOLEAN :
          child = [id \in Ids |->
                     IF id = 1
                     THEN [NoChild EXCEPT !.state = Setup("up"),
                                          !.relay = RelayStart(pass)]
                     ELSE NoChild]
    /\ pipe = [id \in Ids |-> [p \in Pipes |-> <<>>]]
    /\ reader = [id \in Ids |->
                    [p \in Pipes |-> IF id = 1 THEN "running" ELSE "none"]]
    /\ poll = PollIdle
    /\ closing = NoClosing
    /\ task = "none"
    /\ written = NoWrite
    /\ stdin_pipe = NoStdin

(* The steps of the relay's own threads *)
RelayThreads(id) ==
    \/ \E ok \in BOOLEAN : RelaySetup(id, ok)
    \/ StdoutLoad(id)
    \/ \E n \in 1..MaxBytes : StdoutRead(id, n)
    \/ StdoutEof(id)
    \/ StdinLoad(id)
    \/ \E n \in 1..MaxBytes, k \in 0..MaxBytes : StdinRead(id, n, k)
    \/ RelayJoinStdout(id)
    \/ RelayJoinStdin(id)

(* What the host application and the remote shell do to the relay *)
RelayEnvironment(id) ==
    \/ \E b \in RelayBytes : HostWrites(id, b)
    \/ HostClosesStdin(id)
    \/ \E b \in RelayBytes : RemoteSends(id, b)
    \/ RemoteEof(id)
    \/ RemoteFails(id)

NextRelay ==
    \/ \E id \in Ids : RelayThreads(id)
    \/ \E id \in Ids : RelayEnvironment(id)
    \/ \E id \in Ids : ChildZombie(id)

SpecRelay == InitRelay /\ [][NextRelay]_vars

(* The operating system schedules every thread of the relay: a thread that  *)
(* can take a step takes it.  Nothing obliges the host application or the   *)
(* remote shell to act.                                                     *)
SpecRelayLive ==
    /\ InitRelay
    /\ [][NextRelay]_vars
    /\ \A id \in Ids :
          /\ WF_vars(\E ok \in BOOLEAN : RelaySetup(id, ok))
          /\ WF_vars(StdoutLoad(id))
          /\ WF_vars(\E n \in 1..MaxBytes : StdoutRead(id, n))
          /\ WF_vars(StdoutEof(id))
          /\ WF_vars(StdinLoad(id))
          /\ WF_vars(\E n \in 1..MaxBytes, k \in 0..MaxBytes : StdinRead(id, n, k))
          /\ WF_vars(RelayJoinStdout(id))
          /\ WF_vars(RelayJoinStdin(id))

----------------------------------------------------------------------------
(* The terminal view: build_terminal_spans and apply_search_highlight *)

RenderRows == 2   \* rows of the drawn screens
RenderCols == 2   \* columns of the drawn screens

(* iced::Color::from_rgb8 *)
from_rgb8(r, g, b) == <<"rgb8", r, g, b>>

(* p.text_primary, the palette's text colour (dark theme) *)
text_primary == from_rgb8(228, 232, 240)

(* iced::Color::from_rgb(1.0, 0.85, 0.0), in hundredths *)
HighlightColor == <<"rgb", 100, 85, 0>>

(* vt100::Color *)
VtDefault == [kind |-> "Default"]
VtIdx(idx) == [kind |-> "Idx", idx |-> idx]
VtRgb(r, g, b) == [kind |-> "Rgb", r |-> r, g |-> g, b |-> b]

ANSI16 ==
    << <<0, 0, 0>>, <<205, 49, 49>>, <<13, 188, 121>>, <<229, 229, 16>>,
       <<36, 114, 200>>, <<188, 63, 188>>, <<17, 168, 205>>, <<229, 229, 229>>,
       <<102, 102, 102>>, <<241, 76, 76>>, <<35, 209, 139>>, <<245, 245, 67>>,
       <<59, 142, 234>>, <<214, 112, 214>>, <<41, 184, 219>>, <<255, 255, 255>> >>

to_255(n) == IF n = 0 THEN 0 ELSE 55 + n * 40

ansi_index_to_color(idx) ==
    IF idx < 16 THEN from_rgb8(ANSI16[idx + 1][1], ANSI16[idx + 1][2], ANSI16[idx + 1][3])
    ELSE IF idx >= 16 /\ idx <= 231
    THEN LET v == idx - 16
         IN  from_rgb8(to_255(v \div 36), to_255((v % 36) \div 6), to_255(v % 6))
    ELSE LET gray == 8 + (idx - 232) * 10
         IN  from_rgb8(gray, gray, gray)

vt_color_to_iced(color, default_color) ==
    CASE color.kind = "Default" -> default_color
      [] color.kind = "Rgb" -> from_rgb8(color.r, color.g, color.b)
      [] OTHER -> ansi_index_to_color(color.idx)

(* Option<iced::Color> *)
NoColor == [some |-> FALSE]
SomeColor(c) == [some |-> TRUE, color |-> c]

(* A vt100::Cell *)
BlankCell ==
    [contents |-> <<>>, fgcolor |-> VtDefault, bgcolor |-> VtDefault,
     bold |-> FALSE, italic |-> FALSE, underline |-> FALSE,
     is_wide |-> FALSE, is_wide_continuation |-> FALSE]

PlainCell(c) == [BlankCell EXCEPT !.contents = <<c>>]

WideCell == [PlainCell(20013) EXCEPT !.is_wide = TRUE]

ContinuationCell == [BlankCell EXCEPT !.is_wide_continuation = TRUE]

(* The cells the drawn screens are made of: a blank, letters in both cases, *)
(* the same red as a palette index and as an RGB value, bold, a capital     *)
(* whose lowercase is longer, a background with italic and underline, and a *)
(* wide character with its continuation.                                    *)
RenderCells ==
    { BlankCell, PlainCell(97), PlainCell(65),
      [PlainCell(97) EXCEPT !.fgcolor = VtIdx(1)],
      [PlainCell(98) EXCEPT !.fgcolor = VtRgb(205, 49, 49)],
      [PlainCell(97) EXCEPT !.bold = TRUE],
      PlainCell(304),
      [PlainCell(98) EXCEPT !.bgcolor = VtIdx(4), !.italic = TRUE,
                            !.underline = TRUE],
      WideCell, ContinuationCell }

(* A grid the interpreter can hold: a continuation cell follows a wide      *)
(* character, and only there.                                               *)
WellFormedRow(row) ==
    /\ ~row[1].is_wide_continuation
    /\ ~row[Len(row)].is_wide
    /\ \A c \in 2..Len(row) : row[c].is_wide_continuation <=> row[c - 1].is_wide

(* One row of plain cells holding the text *)
TextScreen(text) == << [c \in 1..Len(text) |-> PlainCell(text[c])] >>

HelloWorldHello ==
    <<104, 101, 108, 108, 111, 32, 119, 111, 114, 108, 100, 32,
      104, 101, 108, 108, 111>>

Screens ==
    {cells \in [1..RenderRows -> [1..RenderCols -> RenderCells]] :
        \A r \in 1..RenderRows : WellFormedRow(cells[r])}
    \cup {TextScreen(HelloWorldHello), TextScreen(<<97, 97, 97>>)}

(* A parser whose screen holds the grid *)
RenderParser(cells) ==
    [rows |-> Len(cells), cols |-> Len(cells[1]), scrollback |-> ScrollbackLen,
     alt |-> FALSE, fed |-> <<>>, screen |-> cells]

(* TermSpanStyle of a cell *)
TermSpanStyle(cell, default_color) ==
    [fg |-> vt_color_to_iced(cell.fgcolor, default_color),
     bg |-> IF cell.bgcolor.kind = "Default" THEN NoColor
            ELSE SomeColor(vt_color_to_iced(cell.bgcolor, default_color)),
     bold |-> cell.bold, italic |-> cell.italic, underline |-> cell.underline]

DefaultStyle(default_color) ==
    [fg |-> default_color, bg |-> NoColor,
     bold |-> FALSE, italic |-> FALSE, underline |-> FALSE]

(* Span::new(text) *)
SpanNew(text) ==
    [text |-> text, color |-> NoColor, bold |-> FALSE, italic |-> FALSE,
     bg |-> NoColor, underline |-> FALSE]

span_from_style(text_value, style) ==
    [text |-> text_value, color |-> SomeColor(style.fg), bold |-> style.bold,
     italic |-> style.italic, bg |-> style.bg, underline |-> style.underline]

(* The contents of a cell as the interpreter holds them *)
RawContent(cell) == cell.contents

(* let content = if raw.is_empty() { " " } else { raw } *)
CellContent(cell) == IF cell.contents = <<>> THEN <<32>> ELSE cell.contents

(* A run that ends only where the foreground colour changes *)
StartsRunAtColour(style, acc) ==
    style.fg /= acc.current_style.fg /\ acc.current_text /= <<>>

(* if style != current_style && !current_text.is_empty() *)
StartsRun(style, acc) ==
    style /= acc.current_style /\ acc.current_text /= <<>>

(* The body of the column loop: acc is [spans, current_text, current_style] *)
CellStep(acc, cell, default_color) ==
    IF cell.is_wide_continuation THEN acc
    ELSE LET style == TermSpanStyle(cell, default_color)
             flush == StartsRun(style, acc)
         IN  [spans |-> IF flush
                        THEN Append(acc.spans,
                                    span_from_style(acc.current_text, acc.current_style))
                        ELSE acc.spans,
              current_text |-> (IF flush THEN <<>> ELSE acc.current_text)
                               \o CellContent(cell),
              current_style |-> style]

RECURSIVE ColumnLoop(_, _, _, _)
ColumnLoop(row, col, acc, default_color) ==
    IF col > Len(row) THEN acc
    ELSE ColumnLoop(row, col + 1, CellStep(acc, row[col], default_color),
                    default_color)

(* if row < rows.saturating_sub(1) { current_text.push('\n') } *)
RowEnd(acc, row, rows) ==
    IF row < rows THEN [acc EXCEPT !.current_text = @ \o <<10>>] ELSE acc

RECURSIVE RowLoop(_, _, _, _)
RowLoop(cells, row, acc, default_color) ==
    IF row > Len(cells) THEN acc
    ELSE RowLoop(cells, row + 1,
                 RowEnd(ColumnLoop(cells[row], 1, acc, default_color),
                        row, Len(cells)),
                 default_color)

build_terminal_spans(runtime, default_color) ==
    LET acc == RowLoop(runtime.parser.screen, 1,
                       [spans |-> <<>>, current_text |-> <<>>,
                        current_style |-> DefaultStyle(default_color)],
                       default_color)
        spans == IF acc.current_text /= <<>>
                 THEN Append(acc.spans,
                             span_from_style(acc.current_text, acc.current_style))
                 ELSE acc.spans
    IN  IF spans = <<>> THEN <<SpanNew(<<32>>)>> ELSE spans

(* str::find on the bytes: the offset of the first occurrence, -1 for None *)
Find(hay, needle) ==
    LET hits == {i \in 0..(Len(hay) - Len(needle)) :
                    SubSeq(hay, i + 1, i + Len(needle)) = needle}
    IN  IF hits = {} THEN -1 ELSE CHOOSE i \in hits : \A j \in hits : i <= j

(* str::is_char_boundary *)
is_char_boundary(bytes, index) ==
    \/ index = 0
    \/ index = Len(bytes)
    \/ index < Len(bytes) /\ ~IsCont(bytes[index + 1])

(* text[from..to].to_string(), the offsets being character boundaries *)
Slice(bytes, from, to) == FromUtf8(SubSeq(bytes, from + 1, to)).chars

(* Span::new(text).color(color) *)
SpanColored(text, color) == [SpanNew(text) EXCEPT !.color = SomeColor(color)]

(* The while loop over one span: text and tl in bytes, acc is [spans, count] *)
RECURSIVE HighlightLoop(_, _, _, _, _, _, _)
HighlightLoop(text, tl, ql, pos, base_color, highlight_color, acc) ==
    IF pos >= Len(text) THEN acc
    ELSE LET rel == Find(SubSeq(tl, pos + 1, Len(tl)), ql)
             abs == pos + rel
             end == abs + Len(ql)
         IN  IF rel = -1
             THEN [acc EXCEPT !.spans =
                      Append(@, SpanColored(Slice(text, pos, Len(text)), base_color))]
             ELSE IF \/ ~is_char_boundary(text, abs)
                     \/ ~is_char_boundary(text, end)
                     \/ end > Len(text)
             THEN [acc EXCEPT !.spans =
                      Append(@, SpanColored(Slice(text, pos, Len(text)), base_color))]
             ELSE HighlightLoop(text, tl, ql, end, base_color, highlight_color,
                     [spans |-> (IF abs > pos
                                 THEN Append(acc.spans,
                                             SpanColored(Slice(text, pos, abs),
                                                         base_color))
                                 ELSE acc.spans)
                                \o <<SpanColored(Slice(text, abs, end),
                                                 highlight_color)>>,
                      count |-> acc.count + 1])

(* The body of the for loop over the spans *)
HighlightSpan(span, ql, highlight_color, default_color, acc) ==
    LET text == AsBytes(span.text)
        tl == AsBytes(Lower(span.text))
        base_color == IF span.color.some THEN span.color.color ELSE default_color
    IN  IF Find(tl, ql) = -1 THEN [acc EXCEPT !.spans = Append(@, span)]
        ELSE HighlightLoop(text, tl, ql, 0, base_color, highlight_color, acc)

RECURSIVE HighlightSpans(_, _, _, _, _)
HighlightSpans(spans, ql, highlight_color, default_color, acc) ==
    IF spans = <<>> THEN acc
    ELSE HighlightSpans(Tail(spans), ql, highlight_color, default_color,
             HighlightSpan(Head(spans), ql, highlight_color, default_color, acc))

(* apply_search_highlight: [spans, count] *)
apply_search_highlight(spans, query, highlight_color, default_color) ==
    IF query = <<>> THEN [spans |-> spans, count |-> 0]
    ELSE HighlightSpans(spans, AsBytes(Lower(query)), highlight_color,
                        default_color, [spans |-> <<>>, count |-> 0])

(* raw_spans of view_main_area for a tab *)
RawSpans(tab) ==
    IF HasRuntime(tab.id)
    THEN build_terminal_spans(terminal_runtime[tab.id], text_primary)
    ELSE <<SpanNew(IF tab.output = <<>> THEN <<32>> ELSE tab.output)>>

(* (terminal_spans, match_count) of view_main_area for a tab *)
TerminalSpans(tab) ==
    IF tab.search_active /\ tab.search_query /= <<>>
    THEN apply_search_highlight(RawSpans(tab), tab.search_query,
                                HighlightColor, text_primary)
    ELSE [spans |-> RawSpans(tab), count |-> 0]

(* Message::TerminalSearchToggle *)
TerminalSearchToggle ==
    /\ UiIdle
    /\ Finish(SearchToggleOutcome, scroll_mode)

(* Message::TerminalSearchChanged(q) *)
TerminalSearchChanged(q) ==
    /\ UiIdle
    /\ Finish(IF active_tab = 0 THEN Nothing
              ELSE Outcome([terminal_tabs EXCEPT ![active_tab].search_query = q],
                           NoWrite, "none"),
              scroll_mode)

(* Message::TerminalSearchClose *)
TerminalSearchClose ==
    /\ UiIdle
    /\ Finish(SearchCloseOutcome, scroll_mode)

(* What the user types into the search field *)
Queries == {<<>>, <<97>>, <<65>>, <<97, 97>>, <<304>>, <<104, 101, 108, 108, 111>>}

(* The view: one open session whose interpreter holds any of the screens;   *)
(* the user opens, edits and closes the search.                             *)
InitRender ==
    /\ app = "running"
    /\ pc = "idle"
    /\ terminal_tabs = <<NewTab(1, TRUE, "None")>>
    /\ active_tab = 1
    /\ tab_counter = 1
    /\ \E cells \in Screens :
          terminal_runtime = [id \in {1} |-> [rx |-> <<>>, parser |-> RenderParser(cells)]]
    /\ scroll_mode = FALSE
    /\ dialog = "None"
    /\ custom_commands = <<>>
    /\ child = [id \in Ids |->
                   IF id = 1 THEN [NoChild EXCEPT !.state = Setup("up")] ELSE NoChild]
    /\ pipe = [id \in Ids |-> [p \in Pipes |-> <<>>]]
    /\ reader = [id \in Ids |-> [p \in Pipes |-> IF id = 1 THEN "running" ELSE "none"]]
    /\ poll = PollIdle
    /\ closing = NoClosing
    /\ task = "none"
    /\ written = NoWrite
    /\ stdin_pipe = NoStdin

NextRender ==
    \/ TerminalSearchToggle
    \/ \E q \in Queries : TerminalSearchChanged(q)
    \/ TerminalSearchClose

SpecRender == InitRender /\ [][NextRender]_vars

(* After the exit: launches of every outcome, relays that fail or exit, the *)
(* poll tick, and a user who switches, clears and closes tabs.              *)
NextAfterExit ==
    \/ NextLaunch
    \/ TerminalClear

SpecAfterExit == Init /\ [][NextAfterExit]_vars

(* A flood: one session whose remote command prints without end.  The UI   *)
(* thread goes on with a handler it has started; the relay and the reader   *)
(* workers run as the scheduler lets them.                                  *)
RxCap == 2

NextFlood ==
    \/ TerminalPoll
    \/ \E p \in Pipes :
          /\ ReaderStep(1, p)
          /\ 1 \in DOMAIN terminal_runtime' => Len(terminal_runtime'[1].rx) <= RxCap
    \/ RelayPump(1)
    \/ RelayFlood(1)
    \/ RelayExit(1)
    \/ ChildZombie(1)

SpecFlood ==
    /\ InitOneTab(<<>>, <<>>, <<>>)
    /\ [][NextFlood]_vars
    /\ WF_vars(PollRecv)
    /\ WF_vars(PollTryWait)
    /\ WF_vars(PollFinish)
    /\ WF_vars(RunTask)

(* Focus: three launches have failed and left their tabs; the user switches *)
(* between them, opens and closes the search, and closes them in any order. *)
FocusTabs == 3

InitFocus ==
    /\ app = "running"
    /\ pc = "idle"
    /\ terminal_tabs = [i \in 1..FocusTabs |-> NewTab(i, FALSE, "not_found")]
    /\ active_tab = FocusTabs
    /\ tab_counter = FocusTabs
    /\ terminal_runtime = << >>
    /\ scroll_mode = FALSE
    /\ dialog = "None"
    /\ custom_commands = <<>>
    /\ child = [id \in Ids |-> NoChild]
    /\ pipe = [id \in Ids |-> [p \in Pipes |-> <<>>]]
    /\ reader = [id \in Ids |-> [p \in Pipes |-> "none"]]
    /\ poll = PollIdle
    /\ closing = NoClosing
    /\ task = "none"
    /\ written = NoWrite
    /\ stdin_pipe = NoStdin

NextFocus ==
    \/ \E idx \in 1..FocusTabs : SwitchTab(idx)
    \/ \E idx \in 1..FocusTabs : CloseTabTeardown(idx)
    \/ CloseTabRemove
    \/ TerminalSearchToggle

SpecFocus == InitFocus /\ [][NextFocus]_vars

----------------------------------------------------------------------------
(* Properties of the session lifecycle *)

ToRemove == {poll.to_remove[i] : i \in 1..Len(poll.to_remove)}

TabOf(id) == terminal_tabs[TabIndexOf(id)]

Spawned(id) == child[id].state /= "none"

(* The numbers of the chunks of pipe p in s, in the order of s *)
RECURSIVE PipeNumbers(_, _)
PipeNumbers(s, p) ==
    IF s = <<>> THEN <<>>
    ELSE (IF Head(s).pipe = p THEN <<Head(s).n>> ELSE <<>>) \o PipeNumbers(Tail(s), p)

(* C1: no relay process outlives its runtime entry: a spawned child whose   *)
(* runtime has left the runtime map (tab close, poll-loop removal,          *)
(* shutdown) has been reaped, after exiting by itself or after a kill.      *)
C1_NoRelayOutlivesRuntime ==
    \A id \in Ids : (Spawned(id) /\ ~HasRuntime(id)) => child[id].state = "reaped"

(* C2: the kill-then-wait teardown runs at most once per session id, the    *)
(* process is never reaped twice, and every live (connected) session has    *)
(* its runtime entry.                                                       *)
C2_TeardownAtMostOnce ==
    /\ \A id \in Ids : child[id].kills <= 1 /\ child[id].waits <= 1
    /\ (app = "running" /\ pc /= "close") =>
          \A i \in 1..Len(terminal_tabs) :
             terminal_tabs[i].connected => HasRuntime(terminal_tabs[i].id)

(* C2 witness: one session was torn down by its tab's close, another one by *)
(* the shutdown that followed.                                              *)
C2_Witness ==
    /\ app = "dropped"
    /\ \E i, j \in Ids :
          /\ i /= j
          /\ child[i].kills = 1 /\ TabIndexOf(i) = 0
          /\ child[j].kills = 1 /\ TabIndexOf(j) /= 0

C3_Handler ==
    (pc = "close" /\ pc' /= "close") =>
       \E id \in Ids :
          /\ id = terminal_tabs[closing.idx].id
          /\ \A i \in 1..Len(terminal_tabs') : terminal_tabs'[i].id /= id
          /\ id \notin DOMAIN terminal_runtime'

(* C3: when a tab with a live runtime is closed, its relay process has been *)
(* killed and reaped while the tab is still in the tab list; once the       *)
(* handler is through neither the tab nor a runtime entry of its id exists. *)
C3_CloseKillsBeforeRemoval ==
    /\ [](pc = "close" =>
            \E id \in Ids :
               /\ id = terminal_tabs[closing.idx].id
               /\ ~HasRuntime(id)
               /\ closing.had_runtime =>
                     /\ child[id].state = "reaped"
                     /\ child[id].kills = 1
                     /\ child[id].waits = 1)
    /\ [][C3_Handler]_vars

(* C3 witness: the close handler has torn down a live runtime and is about  *)
(* to remove the tab.                                                       *)
C3_Witness ==
    /\ pc = "close"
    /\ closing.had_runtime
    /\ child[terminal_tabs[closing.idx].id].kills = 1

C4_Loop ==
    pc \in {"poll_drain", "poll_wait"} =>
       /\ DOMAIN terminal_runtime' = DOMAIN terminal_runtime
       /\ \A id \in poll'.noticed \ poll.noticed :
             /\ id \in {poll'.to_remove[i] : i \in 1..Len(poll'.to_remove)}
             /\ terminal_runtime'[id].parser.fed =
                   Append(terminal_runtime[id].parser.fed, ExitLine(child[id].status))

C4_Removal ==
    (pc = "poll_remove" /\ pc' /= "poll_remove") =>
       \A id \in poll.noticed :
          /\ id \notin DOMAIN terminal_runtime'
          /\ \A i \in 1..Len(terminal_tabs') :
                terminal_tabs'[i].id = id => ~terminal_tabs'[i].connected

(* C4: the exit line is fed after every chunk drained for the session (it   *)
(* is the last thing its interpreter is fed, and it is fed once); the       *)
(* runtime map keeps its keys while the loop over the sessions runs; and    *)
(* when the tick is through, every session found exited has lost its        *)
(* runtime and is marked disconnected.                                      *)
C4_ExitLineLastRemovalDeferred ==
    /\ [](\A id \in DOMAIN terminal_runtime :
            LET fed == terminal_runtime[id].parser.fed
            IN  \A i \in 1..Len(fed) : fed[i].kind = "exit" => i = Len(fed))
    /\ [][C4_Loop]_vars
    /\ [][C4_Removal]_vars

(* C4 witness: a tick drained a chunk of a session, found its child exited  *)
(* and fed the exit line; the removal is still to come.                     *)
C4_Witness ==
    /\ pc = "poll_remove"
    /\ \E id \in poll.noticed :
          /\ id \in poll.drained
          /\ HasRuntime(id)
          /\ Len(terminal_runtime[id].parser.fed) >= 2

C5_Removal ==
    (pc = "poll_remove" /\ pc' /= "poll_remove") =>
       \A id \in ToRemove :
          /\ id \in poll.noticed
          /\ \A i \in 1..Len(terminal_tabs') :
                terminal_tabs'[i].id = id => ~terminal_tabs'[i].connected

(* C5: a tick that finds a session's channel disconnected (both reader      *)
(* workers stopped) marks the session disconnected and has fed an exit      *)
(* notice to its interpreter, whether or not the child is reported exited.  *)
C5_DisconnectedGetsNotice ==
    [][C5_Removal]_vars

C7_Channel ==
    \A id \in DOMAIN terminal_runtime \cap DOMAIN terminal_runtime' :
        LET rx == terminal_runtime[id].rx
            rx2 == terminal_runtime'[id].rx
        IN  \/ rx2 = rx
            \/ /\ \E p \in Pipes :
                     /\ reader[id][p] = "running"
                     /\ pipe[id][p] /= <<>>
                     /\ rx2 = Append(rx, Head(pipe[id][p]))
                     /\ pipe'[id][p] = Tail(pipe[id][p])
               /\ terminal_runtime'[id].parser = terminal_runtime[id].parser
            \/ /\ pc = "poll_drain"
               /\ rx /= <<>>
               /\ rx2 = Tail(rx)
               /\ terminal_runtime'[id].parser.fed =
                     Append(terminal_runtime[id].parser.fed, Head(rx))

(* C7: per pipe, the chunks reach the interpreter in the order the relay    *)
(* wrote and the worker read them, none twice and none skipped; the channel *)
(* grows only at its tail by a chunk a worker took from its pipe, and       *)
(* shrinks only at its head inside the poll loop's drain.                   *)
C7_PerPipeOrder ==
    /\ [](\A id \in DOMAIN terminal_runtime : \A p \in Pipes :
            LET s == PipeNumbers(terminal_runtime[id].parser.fed
                                 \o terminal_runtime[id].rx \o pipe[id][p], p)
            IN  /\ Len(s) = child[id].wrote[p]
                /\ \A i \in 1..Len(s) : s[i] = i)
    /\ [][C7_Channel]_vars

(* C7 witness: the interpreter of a session has been fed two chunks of the  *)
(* same pipe.                                                               *)
C7_Witness ==
    \E id \in DOMAIN terminal_runtime : \E p \in Pipes :
       Len(PipeNumbers(terminal_runtime[id].parser.fed, p)) >= 2

----------------------------------------------------------------------------
(* Properties of the scroll decision of a poll tick *)

PollReturns == pc = "poll_remove" /\ pc' /= "poll_remove"

(* The sessions whose interpreter consumed bytes in this tick: chunks       *)
(* drained from the channel, or the exit line.                              *)
Consumed == poll.drained \cup poll.noticed

C8_Tick == (PollReturns /\ poll.entered_alt) => task' = "snap_top"

(* C8: a tick in whose drain the focused session's interpreter entered      *)
(* alternate-screen mode requests snap-to-top and no snap-to-bottom,        *)
(* whatever is processed later in that drain.                               *)
C8_EnterAltSnapsTop == [][C8_Tick]_vars

C9_Tick ==
    PollReturns =>
       /\ task' = "snap_bottom" =>
             /\ poll.active_id \in Consumed
             /\ ~terminal_runtime[poll.active_id].parser.alt
             /\ ~scroll_mode
       /\ poll.active_id \notin Consumed => task' = "none"

(* C9: a tick requests snap-to-bottom only if the focused session's         *)
(* interpreter consumed bytes in it, that session's alternate screen is not *)
(* active and manual scroll mode is off; a tick in which only non-focused   *)
(* sessions consumed bytes requests no scroll at all.                       *)
C9_SnapBottomOnlyFocused == [][C9_Tick]_vars

(* C9 witness: a tick consumed bytes for the focused and for a non-focused  *)
(* session and is about to request snap-to-bottom.                          *)
C9_Witness ==
    /\ pc = "poll_remove"
    /\ poll.should_snap_bottom /\ ~poll.should_snap_top /\ ~scroll_mode
    /\ \E id \in Consumed : id /= poll.active_id
    /\ poll.active_id \in poll.drained

----------------------------------------------------------------------------
(* A relay launched against an unreachable host *)

ReadersStopped(id) == \A p \in Pipes : reader[id][p] = "stopped"

----------------------------------------------------------------------------
(* Properties of the input pipeline *)

ActiveTab == terminal_tabs[active_tab]

C10_Enter ==
    (/\ TerminalSendBytes(<<13>>)
     /\ dialog = "None"
     /\ ActiveValid
     /\ HasRuntime(ActiveTab.id)
     /\ \E i \in 1..Len(custom_commands) :
           custom_commands[i].trigger = Trim(ActiveTab.input_buffer))
    => \E i \in 1..Len(custom_commands) :
          /\ custom_commands[i].trigger = Trim(ActiveTab.input_buffer)
          /\ \A j \in 1..(i - 1) :
                custom_commands[j].trigger /= Trim(ActiveTab.input_buffer)
          /\ written'.id = ActiveTab.id
          /\ LET w == written'.bytes
             IN  /\ Len(w) >= 2
                 /\ w[1] = 21
                 /\ w[Len(w)] = 13
                 /\ FromUtf8(SubSeq(w, 2, Len(w) - 1)) =
                       [ok |-> TRUE, chars |-> custom_commands[i].script]

C12_ControlSequenceResetsBuffer ==
    (/\ written.id /= 0
     /\ TabIndexOf(written.id) /= 0
     /\ \E k \in 1..Len(written.bytes) : written.bytes[k] < 32)
    => TabOf(written.id).input_buffer = <<>>

(* The characters the texts of TableBytes are made of *)
C13_Chars == {32, 97, 98, 233}

(* The texts whose UTF-8 encoding is bytes *)
C13_Decoded(bytes) ==
    {chars \in UNION {[1..n -> C13_Chars] : n \in 0..Len(bytes)} :
        AsBytes(chars) = bytes}

(* The rule table: the echo buffer and the suggestion index after bytes *)
C13_Rule(tab, bytes) ==
    LET buf == tab.input_buffer
        Row(b, idx) == [input_buffer |-> b, suggestion_index |-> idx]
    IN  IF bytes = <<13>> THEN Row(<<>>, tab.suggestion_index)
        ELSE IF bytes = <<127>>
        THEN Row(IF buf = <<>> THEN <<>> ELSE SubSeq(buf, 1, Len(buf) - 1), 0)
        ELSE IF bytes \in {<<3>>, <<21>>, <<27>>} THEN Row(<<>>, 0)
        ELSE IF Len(bytes) = 1 /\ bytes[1] >= 32 THEN Row(buf \o <<bytes[1]>>, 0)
        ELSE IF Len(bytes) > 1 /\ bytes[1] = 27 THEN Row(<<>>, 0)
        ELSE IF /\ Len(bytes) > 1
                /\ \A k \in 1..Len(bytes) : bytes[k] >= 32
                /\ C13_Decoded(bytes) /= {}
        THEN Row(buf \o (CHOOSE chars \in C13_Decoded(bytes) : TRUE), 0)
        ELSE Row(buf, tab.suggestion_index)

C13_Send ==
    \A bytes \in TableBytes :
       (TerminalSendBytes(bytes) /\ dialog = "None" /\ ActiveValid)
       => /\ terminal_tabs'[active_tab].input_buffer =
                C13_Rule(ActiveTab, bytes).input_buffer
          /\ terminal_tabs'[active_tab].suggestion_index =
                C13_Rule(ActiveTab, bytes).suggestion_index

(* C13: for every byte sequence sent with no dialog open, the focused       *)
(* session's echo buffer and suggestion index change as the ordered rule    *)
(* table says: CR clears the buffer; DEL drops the last character; ETX, NAK *)
(* and ESC clear the buffer; another single byte >= 32 appends its          *)
(* character; a longer sequence starting with ESC clears the buffer; a      *)
(* longer sequence of bytes >= 32 that is valid text appends the decoded    *)
(* text; every rule but CR also clears the suggestion index; anything else  *)
(* changes neither.                                                         *)
C13_BufferRuleTable == [][C13_Send]_vars

(* C13 witness: the two-byte UTF-8 text has been sent after the letter "a"  *)
(* and the buffer holds the letter and the one decoded character.           *)
C13_Witness ==
    /\ ActiveValid
    /\ written = [id |-> ActiveTab.id, bytes |-> <<195, 169>>]
    /\ ActiveTab.input_buffer = <<97, 233>>
    /\ ActiveTab.suggestion_index = 0

----------------------------------------------------------------------------
(* Properties of the command history *)

C11_Shape ==
    \A i \in 1..Len(terminal_tabs) :
       LET h == terminal_tabs[i].command_history
       IN  /\ Len(h) <= 50
           /\ \A k \in 1..Len(h) : h[k] /= <<>>
           /\ \A k \in 1..(Len(h) - 1) : h[k] /= h[k + 1]

C11_Enter ==
    (TerminalSendBytes(<<13>>) /\ dialog = "None" /\ ActiveValid)
    => LET buffer == Trim(ActiveTab.input_buffer)
           h == ActiveTab.command_history
           after == terminal_tabs'[active_tab].command_history
           matched == \E i \in 1..Len(custom_commands) :
                         custom_commands[i].trigger = buffer
       IN  IF matched \/ buffer = <<>> \/ (h /= <<>> /\ h[Len(h)] = buffer)
           THEN after = h
           ELSE IF Len(h) = 50
           THEN after = SubSeq(h, 2, 50) \o <<buffer>>
           ELSE after = h \o <<buffer>>

(* C11: every session's command history has at most 50 entries, no empty    *)
(* entry and no two adjacent equal entries; an Enter appends the trimmed    *)
(* buffer, dropping the oldest entry of a full history, and appends nothing *)
(* when the trimmed buffer matched an alias, is empty or equals the most    *)
(* recent entry.                                                            *)
C11_HistoryBounded == []C11_Shape /\ [][C11_Enter]_vars

(* C11 witness: an Enter has just been handled for a session whose history  *)
(* is full, and the typed command is its newest entry.                      *)
C11_Witness ==
    /\ ActiveValid
    /\ Len(ActiveTab.command_history) = 50
    /\ ActiveTab.command_history[50] = <<100>>
    /\ ActiveTab.input_buffer = <<>>
    /\ written = [id |-> ActiveTab.id, bytes |-> <<13>>]

----------------------------------------------------------------------------
(* Properties of the suggestions *)

Suggestions(tab) == compute_suggestions(tab, AliasTriggers)

C14_Matches(c, buffer) ==
    StartsWith(Lower(c), Lower(buffer)) /\ Lower(c) /= Lower(buffer)

(* The matching history entries, most recent first *)
RECURSIVE C14_Recent(_, _)
C14_Recent(h, buffer) ==
    IF h = <<>> THEN <<>>
    ELSE (IF C14_Matches(h[Len(h)], buffer) THEN <<h[Len(h)]>> ELSE <<>>)
         \o C14_Recent(SubSeq(h, 1, Len(h) - 1), buffer)

(* The candidates that start with the buffer, differ from it and are not    *)
(* listed yet, each once, in table order                                    *)
C14_New(cands, listed, buffer) ==
    LET New(k) == /\ StartsWith(Lower(cands[k]), Lower(buffer))
                  /\ cands[k] /= buffer
                  /\ cands[k] \notin listed
                  /\ \A j \in 1..(k - 1) : cands[j] /= cands[k]
        kept == SelectSeq([k \in 1..Len(cands) |-> k], New)
    IN  [i \in 1..Len(kept) |-> cands[kept[i]]]

C14_Expected(tab) ==
    IF tab.input_buffer = <<>> THEN <<>>
    ELSE LET b == tab.input_buffer
             recent == C14_Recent(tab.command_history, b)
             hist == SubSeq(recent, 1, IF Len(recent) < 4 THEN Len(recent) ELSE 4)
             inHist == {hist[i] : i \in 1..Len(hist)}
             alias == C14_New(AliasTriggers, inHist, b)
             inAlias == {alias[i] : i \in 1..Len(alias)}
             builtin == C14_New(BUILT_IN_SUGGESTIONS, inHist \cup inAlias, b)
             all == hist \o alias \o builtin
         IN  SubSeq(all, 1, IF Len(all) < 8 THEN Len(all) ELSE 8)

C16_Accept ==
    \A cmd \in Offered :
       (TerminalSuggestionAccept(cmd) /\ ActiveValid /\ HasRuntime(ActiveTab.id))
       => /\ written'.id = ActiveTab.id
          /\ written'.bytes[1] = 21
          /\ FromUtf8(Tail(written'.bytes)) = [ok |-> TRUE, chars |-> cmd]
          /\ terminal_tabs'[active_tab].input_buffer = cmd
          /\ terminal_tabs'[active_tab].suggestion_index = 0
          /\ terminal_tabs'[active_tab].command_history = ActiveTab.command_history

(* C16: accepting a suggestion for a focused session with a relay writes    *)
(* to that relay exactly the clear-line byte 0x15 and the suggestion text,  *)
(* without a carriage return, sets the echo buffer to the suggestion text,  *)
(* clears the suggestion index and leaves the history as it was.            *)
C16_AcceptWritesSuggestion == [][C16_Accept]_vars

(* C16 witness: the last write to the focused relay is 0x15 followed by     *)
(* the text that is now the echo buffer, a built-in name the history does   *)
(* not hold.                                                                *)
C16_Witness ==
    /\ ActiveValid
    /\ written.id = ActiveTab.id
    /\ written.bytes = <<21>> \o ActiveTab.input_buffer
    /\ Contains(BUILT_IN_SUGGESTIONS, ActiveTab.input_buffer)
    /\ ~Contains(ActiveTab.command_history, ActiveTab.input_buffer)
    /\ ActiveTab.suggestion_index = 0

----------------------------------------------------------------------------
(* Properties of the key encoding *)

(* The index of an ASCII letter in the alphabet, 0 for anything else *)
C17_LetterIndex(c) ==
    IF c \in 65..90 THEN c - 64 ELSE IF c \in 97..122 THEN c - 96 ELSE 0

(* The mapping of every key under every modifier state *)
C17_Encoding ==
    \A key \in Keys, m \in Modifiers :
       LET r == map_key_to_bytes(key, m)
           plain == map_key_to_bytes(key, [m EXCEPT !.alt = FALSE])
           letter == IF key.ch = <<>> THEN 0 ELSE C17_LetterIndex(Head(key.ch))
       IN  /\ (key.kind = "Character" /\ m.control /\ letter /= 0)
              => /\ letter \in 1..26
                 /\ plain = Some(<<letter>>)
           /\ (key.kind = "Character" /\ m.control /\ letter = 0) => ~r.some
           /\ m.alt => /\ r.some = plain.some
                       /\ plain.some => r.bytes = <<27>> \o plain.bytes

(* A press with Control or Alt that no shortcut, scroll mode, suggestion    *)
(* navigation or search takes before the mapping                            *)
C17_Reaches(key, m) ==
    /\ m.control \/ m.alt
    /\ key.kind = "Character" \/ m.alt
    /\ dialog = "None"
    /\ ~scroll_mode
    /\ ActiveValid
    /\ HasRuntime(ActiveTab.id)
    /\ ActiveTab.suggestion_index = 0
    /\ ~ActiveTab.search_active
    /\ ~(m.control /\ key.kind = "Character"
         /\ key.ch \in {<<102>>, <<61>>, <<43>>, <<45>>, <<48>>, <<118>>})
    /\ ~(m.control /\ key = Named("Space"))
    /\ map_key_to_bytes(key, m) /= Some(<<13>>)

C17_Press ==
    \A key \in Keys, m \in Modifiers :
       (C17_Reaches(key, m) /\ TerminalKeyPressed(key, m))
       => written' = IF map_key_to_bytes(key, m).some
                     THEN [id |-> ActiveTab.id,
                           bytes |-> map_key_to_bytes(key, m).bytes]
                     ELSE NoWrite

(* C17: for every key and modifier state, Control with a character that is  *)
(* a letter A-Z or a-z maps to the single byte that is the letter's index   *)
(* 1..26, Control with any other character maps to no bytes, and Alt puts   *)
(* one ESC byte before whatever the key maps to without Alt (and maps to    *)
(* nothing if the key does not map); a press that reaches the mapping       *)
(* writes exactly these bytes to the focused relay.                         *)
C17_KeyEncoding == []C17_Encoding /\ [][C17_Press]_vars

(* C17 witness: Control+Alt with the capital letter "C" has been pressed    *)
(* and ESC, ETX went to the focused relay.                                  *)
C17_Witness ==
    /\ ActiveValid
    /\ written = [id |-> ActiveTab.id, bytes |-> <<27, 3>>]
    /\ ActiveTab.input_buffer = <<>>

C18_Press ==
    \A key \in Keys, m \in Modifiers :
       (~map_key_to_bytes(key, m).some /\ TerminalKeyPressed(key, m))
       => /\ written' = NoWrite
          /\ Len(terminal_tabs') = Len(terminal_tabs)
          /\ \A i \in 1..Len(terminal_tabs) :
                /\ terminal_tabs'[i].input_buffer = terminal_tabs[i].input_buffer
                /\ terminal_tabs'[i].command_history = terminal_tabs[i].command_history
                /\ terminal_tabs'[i].suggestion_index = terminal_tabs[i].suggestion_index

(* C18: a key press whose key has no byte mapping writes nothing to any     *)
(* relay and leaves the echo buffer, the history and the suggestion index   *)
(* of every session as they were.                                           *)
C18_UnmappedKeyIsSilent == [][C18_Press]_vars

(* C18 witness: Control+"=", which maps to no bytes, has been pressed after *)
(* the letter "a" was typed: the font grew, the buffer still holds the      *)
(* letter, the other session its input, and nothing was written.            *)
C18_Witness ==
    /\ ActiveValid
    /\ ActiveTab.font_size = FontMax
    /\ ActiveTab.input_buffer = <<97>>
    /\ terminal_tabs[1].input_buffer = <<98>>
    /\ active_tab = 2
    /\ written = NoWrite

----------------------------------------------------------------------------
(* Properties of clearing *)

C19_Clear ==
    (TerminalClear /\ ActiveValid /\ HasRuntime(ActiveTab.id))
    => /\ terminal_runtime'[ActiveTab.id].parser =
             [rows |-> 40, cols |-> 132, scrollback |-> 10000,
              alt |-> FALSE, fed |-> <<>>]
       /\ ClearOutcome(active_tab', terminal_tabs', terminal_runtime') =
             [tabs |-> terminal_tabs', runtime |-> terminal_runtime']

(* C19: a clear of the focused session leaves its interpreter in the empty  *)
(* initial state, 40 rows by 132 columns with a scrollback bound of 10,000  *)
(* lines, and a second clear right after it changes nothing: the tabs and   *)
(* the runtimes after clearing twice are those after clearing once.         *)
C19_ClearIdempotent == [][C19_Clear]_vars

(* C19 witness: the focused session has been cleared after the one chunk    *)
(* its relay wrote was fed to its interpreter; the interpreter and the      *)
(* cached output are empty.                                                 *)
C19_Witness ==
    /\ pc = "idle"
    /\ ActiveValid
    /\ HasRuntime(ActiveTab.id)
    /\ child[ActiveTab.id].wrote["stdout"] = 1
    /\ pipe[ActiveTab.id]["stdout"] = <<>>
    /\ terminal_runtime[ActiveTab.id].rx = <<>>
    /\ terminal_runtime[ActiveTab.id].parser = NewParser
    /\ ActiveTab.output = <<>>

C20_Step ==
    /\ TerminalClear
       => /\ UNCHANGED <<child, pipe, reader, active_tab, tab_counter,
                         scroll_mode, dialog, custom_commands>>
          /\ DOMAIN terminal_runtime' = DOMAIN terminal_runtime
          /\ \A id \in DOMAIN terminal_runtime :
                /\ terminal_runtime'[id].rx = terminal_runtime[id].rx
                /\ (~ActiveValid \/ id /= ActiveTab.id)
                   => terminal_runtime'[id] = terminal_runtime[id]
          /\ Len(terminal_tabs') = Len(terminal_tabs)
          /\ \A i \in 1..Len(terminal_tabs) :
                /\ [terminal_tabs'[i] EXCEPT !.output = terminal_tabs[i].output]
                      = terminal_tabs[i]
                /\ i /= active_tab => terminal_tabs'[i] = terminal_tabs[i]
    /\ (/\ PollRecv
        /\ terminal_runtime[Head(poll.ids)].rx /= <<>>
        /\ terminal_runtime[Head(poll.ids)].parser = NewParser)
       => terminal_runtime'[Head(poll.ids)].parser.fed =
             <<terminal_runtime[Head(poll.ids)].rx[1]>>

(* C20: a clear changes only the focused session's interpreter and cached   *)
(* output: the relay processes, their pipes, the reader workers, every      *)
(* channel with its queued chunks, the liveness flag, echo buffer and       *)
(* history of every tab, and every other session stay as they were; the     *)
(* next tick feeds the oldest queued chunk to the fresh interpreter.        *)
C20_ClearFrame == [][C20_Step]_vars

(* C20 witness: the focused session has been cleared after its relay's      *)
(* first chunk was fed, its second chunk is still queued on the channel,    *)
(* and another session is open.                                             *)
C20_Witness ==
    /\ pc = "idle"
    /\ Len(terminal_tabs) = 2
    /\ ActiveValid
    /\ HasRuntime(ActiveTab.id)
    /\ child[ActiveTab.id].wrote["stdout"] = 2
    /\ pipe[ActiveTab.id]["stdout"] = <<>>
    /\ Len(terminal_runtime[ActiveTab.id].rx) = 1
    /\ terminal_runtime[ActiveTab.id].parser = NewParser
    /\ ActiveTab.output = <<>>
    /\ \A i \in 1..2 : i /= active_tab => terminal_tabs[i].output = <<Banner>>

----------------------------------------------------------------------------
(* Properties of launching *)

C29_Shape ==
    \A i \in 1..Len(terminal_tabs) :
       terminal_tabs[i].relay_error /= "None"
       => /\ ~terminal_tabs[i].connected
          /\ ~HasRuntime(terminal_tabs[i].id)
          /\ \A p \in Pipes : reader[terminal_tabs[i].id][p] = "none"

C29_Connect ==
    \A idx \in 1..Len(hosts), found \in BOOLEAN, spawned \in BOOLEAN,
       piped \in BOOLEAN :
       (~(found /\ spawned /\ piped)
        /\ ConnectToHostWith(idx, found, spawned, piped))
       => LET tab == terminal_tabs'[Len(terminal_tabs')]
          IN  /\ Len(terminal_tabs') = Len(terminal_tabs) + 1
              /\ ~tab.connected
              /\ tab.relay_error /= "None"
              /\ tab.id \notin DOMAIN terminal_runtime'
              /\ \A p \in Pipes : reader'[tab.id][p] = "none"
              /\ active_tab' = Len(terminal_tabs')

(* C29: a connect attempt whose relay binary is not found, whose spawn      *)
(* fails or whose stdio pipes are unavailable still pushes a tab, marked    *)
(* disconnected, with a relay_error, with no runtime entry and no reader    *)
(* worker for its id, and makes it the active tab; a tab with a relay_error *)
(* never gets a runtime or a reader.                                        *)
C29_LaunchFailureTab == []C29_Shape /\ [][C29_Connect]_vars

(* C29 witness: a connect whose relay was not found and then one whose      *)
(* relay started without its pipes; the second tab is focused, and its      *)
(* relay process exists.                                                    *)
C29_Witness ==
    /\ Len(terminal_tabs) = 2
    /\ terminal_tabs[1].relay_error = "not_found"
    /\ terminal_tabs[2].relay_error = "pipes_unavailable"
    /\ ~terminal_tabs[2].connected
    /\ active_tab = 2
    /\ child[terminal_tabs[2].id].state /= "none"
    /\ terminal_runtime = << >>

C30_Shape ==
    /\ \A i, j \in 1..Len(terminal_tabs) :
          i < j => terminal_tabs[i].id < terminal_tabs[j].id
    /\ \A i \in 1..Len(terminal_tabs) : terminal_tabs[i].id \in 1..tab_counter
    /\ DOMAIN terminal_runtime \subseteq 1..tab_counter
    /\ \A id \in Ids : child[id].state /= "none" => id <= tab_counter

C30_Step ==
    /\ tab_counter' >= tab_counter
    /\ Len(terminal_tabs') > Len(terminal_tabs)
       => /\ tab_counter' > tab_counter
          /\ terminal_tabs'[Len(terminal_tabs')].id = tab_counter'

(* C30: the ids of the open tabs are distinct and increase in creation      *)
(* order, every id in use is at most tab_counter, tab_counter never         *)
(* decreases, and every connect attempt, successful or failed, gives its    *)
(* tab an id greater than tab_counter was, so greater than every id handed  *)
(* out before, closed tabs included.                                        *)
C30_FreshIds == []C30_Shape /\ [][C30_Step]_vars

(* C30 witness: the first tab was closed and the tab of a later failed      *)
(* attempt has the id 2.                                                    *)
C30_Witness ==
    /\ pc = "idle"
    /\ Len(terminal_tabs) = 1
    /\ terminal_tabs[1].id = 2
    /\ terminal_tabs[1].relay_error = "spawn_failed"
    /\ tab_counter = 2

----------------------------------------------------------------------------
(* Properties of the relay process *)

(* The position of an operation in the program order of the setup *)
C26_Pos(op) == CHOOSE k \in 1..Len(SetupSteps) : SetupSteps[k] = op

C26_Pumped(r) ==
    r.got_in /= <<>> \/ r.got_ch /= <<>> \/ r.sent /= <<>> \/ r.out /= <<>>

C26_Order(c) ==
    LET r == c.relay
        log == r.log
        Has(op, ok) == \E i \in 1..Len(log) : log[i] = [op |-> op, ok |-> ok]
        Tried(op) == Has(op, TRUE) \/ Has(op, FALSE)
        last == log[Len(log)]
        failed == /\ log /= <<>>
                  /\ ~last.ok
                  /\ ~(last.op = "agent" /\ r.pass)
    IN  \* the operations are tried in program order, each at most once
        /\ \A i, j \in 1..Len(log) :
              i < j => C26_Pos(log[i].op) < C26_Pos(log[j].op)
        \* an operation is tried only after the one before it succeeded
        /\ \A i \in 1..Len(log) :
              /\ log[i].op \notin {"env", "password", "channel"}
                 => Has(SetupSteps[C26_Pos(log[i].op) - 1], TRUE)
              /\ log[i].op = "channel"
                 => Has("agent", TRUE) \/ Has("password", TRUE)
              \* the password is tried only after the agent failed
              /\ log[i].op = "password" => Has("agent", FALSE) /\ r.pass
        \* bytes are pumped only after the shell request succeeded
        /\ (r.step = "pump" \/ C26_Pumped(r)) => Has("shell", TRUE)
        \* a failure ends the process: message on stderr, status 1, no byte
        /\ failed => /\ c.state \in {"exiting", "zombie", "reaped"}
                      /\ c.status /= 0
                      /\ c.wrote["stderr"] = 1
                      /\ ~C26_Pumped(r)
        /\ (Has("agent", FALSE) /\ ~r.pass) => failed

(* C26: the relay tries connect, handshake, agent authentication, password  *)
(* authentication only if the agent failed and a password is set, channel,  *)
(* PTY and shell in this order, each only after the one before succeeded,   *)
(* and pumps bytes only after the shell request succeeded; a failed step    *)
(* (for authentication: the agent failed with no password, or the password  *)
(* failed) ends the process with a message on stderr and a non-zero status  *)
(* before any byte was pumped.                                              *)
C26_SetupSequence == \A id \in Ids : C26_Order(child[id])

(* C26 witness: the agent failed, the password succeeded, the shell was     *)
(* requested, and the relay has pumped a byte in each direction.            *)
C26_Witness ==
    /\ Len(child[1].relay.log) = 8
    /\ child[1].relay.log[4] = [op |-> "agent", ok |-> FALSE]
    /\ child[1].relay.log[5] = [op |-> "password", ok |-> TRUE]
    /\ child[1].relay.sent /= <<>>
    /\ child[1].relay.out /= <<>>

(* C25: once one of the relay's pump loops has stopped, the relay process   *)
(* eventually exits, whether or not anything more arrives on its standard   *)
(* input.                                                                   *)
C25_LoopStopEndsRelay ==
    \A id \in Ids :
       (/\ child[id].state = "pump"
        /\ (child[id].relay.out_pc = "done" \/ child[id].relay.in_pc = "done"))
       ~> (child[id].state /= "pump")

(* C27: a relay that has ended with status 0 went through the whole setup   *)
(* and none of its pump loops stopped because of a read error.              *)
C27_ZeroOnlyWhenClean ==
    \A id \in Ids :
       (child[id].state \in {"exiting", "zombie", "reaped"}
        /\ child[id].relay.step = "exit"
        /\ child[id].status = 0)
       => /\ \E i \in 1..Len(child[id].relay.log) :
                child[id].relay.log[i] = [op |-> "shell", ok |-> TRUE]
          /\ "channel_error" \notin child[id].relay.stop

(* C28: the bytes the relay has written to the remote channel are the bytes *)
(* it has read from its standard input, and the bytes it has written to its *)
(* standard output are the bytes it has read from the channel, in order,    *)
(* none lost and none twice.                                                *)
C28_VerbatimPump ==
    \A id \in Ids :
       /\ child[id].relay.sent = child[id].relay.got_in
       /\ child[id].relay.out = child[id].relay.got_ch

----------------------------------------------------------------------------
(* Properties of the terminal view *)

RenderedScreen == terminal_runtime[1].parser.screen

RenderedSpans == build_terminal_spans(terminal_runtime[1], text_primary)

(* The text of one row: the contents of its cells, a space for an empty     *)
(* cell, nothing for a continuation cell                                    *)
RECURSIVE RowText(_)
RowText(row) ==
    IF row = <<>> THEN <<>>
    ELSE (IF Head(row).is_wide_continuation THEN <<>>
          ELSE IF Head(row).contents = <<>> THEN <<32>>
          ELSE Head(row).contents)
         \o RowText(Tail(row))

(* The rows' texts with a newline between two rows *)
RECURSIVE ScreenText(_)
ScreenText(cells) ==
    IF Len(cells) = 1 THEN RowText(cells[1])
    ELSE RowText(Head(cells)) \o <<10>> \o ScreenText(Tail(cells))

(* The rendering attributes of a cell, colours as they are drawn *)
EffectiveStyle(cell) ==
    <<vt_color_to_iced(cell.fgcolor, text_primary),
      IF cell.bgcolor.kind = "Default" THEN <<>>
      ELSE <<vt_color_to_iced(cell.bgcolor, text_primary)>>,
      cell.bold, cell.italic, cell.underline>>

(* The rendering attributes of a run *)
RunStyle(span) ==
    <<IF span.color.some THEN span.color.color ELSE text_primary,
      IF span.bg.some THEN <<span.bg.color>> ELSE <<>>,
      span.bold, span.italic, span.underline>>

UniformScreen(cells) ==
    \A r1, r2 \in 1..Len(cells) : \A c1, c2 \in 1..Len(cells[1]) :
        EffectiveStyle(cells[r1][c1]) = EffectiveStyle(cells[r2][c2])

(* C22: rendering a screen in which every cell has the same style yields    *)
(* exactly one styled run; its text is the rows' cell contents, an empty    *)
(* cell as a space and wide-character continuation cells skipped, joined by *)
(* a newline between rows, with no newline after the last row.              *)
C22_UniformScreenOneRun ==
    UniformScreen(RenderedScreen) =>
        /\ Len(RenderedSpans) = 1
        /\ RenderedSpans[1].text = ScreenText(RenderedScreen)
        /\ RenderedSpans[1].text[Len(RenderedSpans[1].text)] /= 10

(* A two-row screen of one style with a wide character and an empty cell    *)
C22_Witness ==
    /\ UniformScreen(RenderedScreen)
    /\ Len(RenderedScreen) = 2
    /\ \E r \in 1..2, c \in 1..RenderCols : RenderedScreen[r][c].is_wide_continuation
    /\ \E r \in 1..2, c \in 1..RenderCols : RenderedScreen[r][c] = BlankCell
    /\ Len(RenderedSpans) = 1
    /\ pc = "idle" /\ ActiveTab.search_active

(* The rendered cells of a row, each with its text and its style *)
RECURSIVE RowPieces(_)
RowPieces(row) ==
    IF row = <<>> THEN <<>>
    ELSE (IF Head(row).is_wide_continuation THEN <<>>
          ELSE << [text |-> IF Head(row).contents = <<>> THEN <<32>>
                            ELSE Head(row).contents,
                   style |-> EffectiveStyle(Head(row))] >>)
         \o RowPieces(Tail(row))

(* The rendered cells of the screen in row-major order; the newline after   *)
(* a row goes with the row's last rendered cell                             *)
RECURSIVE Pieces(_)
Pieces(cells) ==
    IF Len(cells) = 1 THEN RowPieces(cells[1])
    ELSE LET ps == RowPieces(Head(cells))
         IN  [ps EXCEPT ![Len(ps)].text = @ \o <<10>>] \o Pieces(Tail(cells))

(* The rendered cells whose style differs from the cell before them, and    *)
(* the first one                                                            *)
RunStarts(ps) == {1} \cup {j \in 2..Len(ps) : ps[j].style /= ps[j - 1].style}

(* The k-th smallest member of a set of numbers *)
Kth(set, k) == CHOOSE j \in set : Cardinality({i \in set : i <= j}) = k

(* The last rendered cell of the run that starts at cell j *)
RunEnd(ps, j) ==
    LET later == {i \in RunStarts(ps) : i > j}
    IN  IF later = {} THEN Len(ps) ELSE (CHOOSE i \in later : \A l \in later : i <= l) - 1

(* C23: the runs are maximal.  A new run starts exactly at the rendered     *)
(* cells whose effective style (foreground, background, bold, italic,       *)
(* underline) differs from the previous rendered cell's; no two consecutive *)
(* runs have the same style, and the run texts concatenated are the         *)
(* row-major text of the screen.                                            *)
C23_MaximalRuns ==
    LET ps == Pieces(RenderedScreen)
        spans == RenderedSpans
    IN  /\ Len(spans) = Cardinality(RunStarts(ps))
        /\ \A k \in 1..Len(spans) :
              LET j == Kth(RunStarts(ps), k)
              IN  /\ spans[k].text =
                        Flatten([i \in 1..(RunEnd(ps, j) - j + 1) |-> ps[j + i - 1].text])
                  /\ RunStyle(spans[k]) = ps[j].style
        /\ \A k \in 1..(Len(spans) - 1) : RunStyle(spans[k]) /= RunStyle(spans[k + 1])
        /\ Flatten([k \in 1..Len(spans) |-> spans[k].text]) = ScreenText(RenderedScreen)

(* A screen where a run goes on over two cells whose colours are held       *)
(* differently and are drawn the same, over the end of a row, and ends at a *)
(* bold cell                                                                *)
C23_Witness ==
    /\ Len(RenderedScreen) = 2
    /\ RenderedScreen[1][RenderCols - 1].fgcolor = VtIdx(1)
    /\ RenderedScreen[1][RenderCols].fgcolor = VtRgb(205, 49, 49)
    /\ RenderedScreen[2][1].fgcolor = VtIdx(1)
    /\ RenderedScreen[2][RenderCols].bold
    /\ Len(RenderedSpans) = 2
    /\ Len(RenderedSpans[1].text) > RenderCols
    /\ pc = "idle" /\ ActiveTab.search_query /= <<>>

(* The non-overlapping occurrences of q in text, found left to right *)
RECURSIVE Occurrences(_, _)
Occurrences(text, q) ==
    IF Len(text) < Len(q) THEN 0
    ELSE IF SubSeq(text, 1, Len(q)) = q
    THEN 1 + Occurrences(SubSeq(text, Len(q) + 1, Len(text)), q)
    ELSE Occurrences(Tail(text), q)

RECURSIVE SumOccurrences(_, _)
SumOccurrences(spans, q) ==
    IF spans = <<>> THEN 0
    ELSE Occurrences(Lower(Head(spans).text), Lower(q))
         + SumOccurrences(Tail(spans), q)

Highlighted(spans) ==
    {k \in 1..Len(spans) : spans[k].color = SomeColor(HighlightColor)}

(* C24: with a non-empty query the match count is the number of highlighted *)
(* sub-runs, which is the number of non-overlapping case-insensitive        *)
(* occurrences of the query found left to right inside each run (2 for the  *)
(* single run "hello world hello" and the query "hello"); a run without the *)
(* query passes through unchanged; an empty query gives the input run list  *)
(* back with count 0.                                                       *)
C24_SearchHighlight ==
    LET raw == RawSpans(ActiveTab)
        q == ActiveTab.search_query
        res == apply_search_highlight(raw, q, HighlightColor, text_primary)
    IN  /\ q = <<>> => res.spans = raw /\ res.count = 0
        /\ q /= <<>> =>
              /\ res.count = Cardinality(Highlighted(res.spans))
              /\ res.count = SumOccurrences(raw, q)
              /\ \A k \in 1..Len(raw) :
                    Occurrences(Lower(raw[k].text), Lower(q)) = 0
                    => \E j \in 1..Len(res.spans) : res.spans[j] = raw[k]
        /\ (raw = <<span_from_style(HelloWorldHello, DefaultStyle(text_primary))>>
            /\ q = <<104, 101, 108, 108, 111>>)
           => res.count = 2 /\ Cardinality(Highlighted(res.spans)) = 2

----------------------------------------------------------------------------
(* Properties of the tab list *)

(* C35: between two handlers a tab is marked connected if and only if the   *)
(* runtime map has an entry for its id, and every key of the runtime map is *)
(* the id of a tab in the list: after a connect, a failed launch, a poll    *)
(* tick and a close.                                                        *)
C35_ConnectedMirrorsRuntime ==
    (app = "running" /\ pc /= "close") =>
        /\ \A i \in 1..Len(terminal_tabs) :
              terminal_tabs[i].connected <=> HasRuntime(terminal_tabs[i].id)
        /\ \A id \in DOMAIN terminal_runtime : TabIndexOf(id) /= 0

(* A session the poll loop has removed next to one that is still live *)
C35_Witness ==
    /\ UiIdle
    /\ \E i, j \in 1..Len(terminal_tabs) :
          /\ ~terminal_tabs[i].connected
          /\ terminal_tabs[i].relay_error = "None"
          /\ ~HasRuntime(terminal_tabs[i].id)
          /\ terminal_tabs[j].connected
          /\ HasRuntime(terminal_tabs[j].id)

C37_Shape ==
    app = "running" =>
        /\ active_tab = 0 <=> terminal_tabs = <<>>
        /\ active_tab \in 0..Len(terminal_tabs)

C37_Close ==
    (CloseTabRemove /\ closing.idx /= active_tab)
    => /\ active_tab' \in 1..Len(terminal_tabs')
       /\ terminal_tabs'[active_tab'].id = terminal_tabs[active_tab].id

(* C37: the active-tab index is None exactly when there are no tabs and is  *)
(* otherwise a valid index into the tab list; closing a tab other than the  *)
(* focused one keeps the same tab (the same session id) focused.            *)
C37_FocusValid == []C37_Shape /\ [][C37_Close]_vars

(* A tab in front of the focused one is being closed *)
C37_Witness ==
    /\ app = "running"
    /\ pc = "close"
    /\ closing.idx < active_tab
    /\ active_tab < Len(terminal_tabs)

(* The tab of session id is still in the list after the step, disconnected, *)
(* and the runtime map has no entry for the id                              *)
C33_StaysGone(i) ==
    LET id == terminal_tabs[i].id
    IN  /\ id \notin DOMAIN terminal_runtime'
        /\ \A j \in 1..Len(terminal_tabs') :
              terminal_tabs'[j].id = id => ~terminal_tabs'[j].connected
        /\ \/ \E j \in 1..Len(terminal_tabs') : terminal_tabs'[j].id = id
           \/ CloseTabRemove /\ closing.idx = i

C33_Kept(i) ==
    \A j \in 1..Len(terminal_tabs') :
       terminal_tabs'[j].id = terminal_tabs[i].id
       => terminal_tabs'[j].output = terminal_tabs[i].output

C33_OriginalStep ==
    \A i \in 1..Len(terminal_tabs) :
       (app = "running" /\ ~terminal_tabs[i].connected)
       => C33_StaysGone(i) /\ C33_Kept(i)

(* C33 as stated: a session marked disconnected is never marked connected   *)
(* again and gets no runtime entry again; its tab and its last output text  *)
(* remain until the user closes the tab.                                    *)
C33_NoReconnectOutputKept == [][C33_OriginalStep]_vars

C33_Step ==
    \A i \in 1..Len(terminal_tabs) :
       (app = "running" /\ ~terminal_tabs[i].connected)
       => /\ C33_StaysGone(i)
          /\ C33_Kept(i) \/ (TerminalClear /\ active_tab = i)

(* C33 amended: a session marked disconnected is never marked connected     *)
(* again and gets no runtime entry again; its tab remains until the user    *)
(* closes it, and its last output text remains until the user clears the    *)
(* tab or closes it.                                                        *)
C33_NoReconnect == [][C33_Step]_vars

(* A session the poll loop has removed: its tab shows the relay's message   *)
(* and the exit notice, and a later tick has started for the other session  *)
C33_Witness ==
    /\ app = "running"
    /\ pc = "poll_drain"
    /\ \E i \in 1..Len(terminal_tabs) :
          /\ ~terminal_tabs[i].connected
          /\ terminal_tabs[i].relay_error = "None"
          /\ \E k \in 1..Len(terminal_tabs[i].output) :
                terminal_tabs[i].output[k] = ExitLine(1)
          /\ ~HasRuntime(terminal_tabs[i].id)

----------------------------------------------------------------------------
(* Properties of the poll tick *)

C34_Tick ==
    PollReturns =>
       /\ task' = "snap_top" => poll.entered_alt
       /\ (/\ ~poll.entered_alt
           /\ poll.active_id \in Consumed
           /\ HasRuntime(poll.active_id)
           /\ terminal_runtime[poll.active_id].parser.alt)
          => task' = "none"

(* C34: snap-to-top is requested only by the tick in which the focused      *)
(* session enters alternate-screen mode; a later tick that consumes bytes   *)
(* while the alternate screen stays active requests neither snap-to-top nor *)
(* snap-to-bottom.                                                          *)
C34_SnapTopOnlyOnEntry == [][C34_Tick]_vars

(* Everything the relay of session id wrote to its two pipes has been fed   *)
(* to the session's interpreter                                             *)
C36_AllFed(id) ==
    \A p \in Pipes :
       Len(PipeNumbers(terminal_runtime[id].parser.fed, p)) = child[id].wrote[p]

C36_Tick ==
    /\ \A id \in Ids :
          (pc = "poll_wait" /\ id \notin poll.noticed /\ id \in poll'.noticed)
          => C36_AllFed(id)
    /\ \A id \in Ids :
          (PollReturns /\ id \in ToRemove /\ HasRuntime(id)) => C36_AllFed(id)

(* C36: every chunk the relay wrote to its standard output or standard      *)
(* error before it exited, the message of a failed launch included, has     *)
(* been fed to the session's interpreter when the exit notice is fed and    *)
(* when the runtime and its channel are discarded.                          *)
C36_OutputBeforeExitNotice == [][C36_Tick]_vars

(* C32: every poll tick completes.  It never blocks on the channel or on    *)
(* the child process, and its drain of a session's queue ends after         *)
(* finitely many chunks even while the reader workers keep pushing.         *)
C32_TickCompletes == (pc = "poll_drain") ~> (pc \in {"idle", "task"})

----------------------------------------------------------------------------
(* Properties of the input handlers *)

(* C38: whenever a session's suggestion index is set, it is an index into   *)
(* the suggestion list computed from the session's current buffer; every    *)
(* event that changes the buffer, Enter included, clears it.                *)
C38_SuggestionIndexValid ==
    \A i \in 1..Len(terminal_tabs) :
       terminal_tabs[i].suggestion_index /= 0
       => terminal_tabs[i].suggestion_index
             <= Len(compute_suggestions(terminal_tabs[i], AliasTriggers))

(* C40: the suggestion list of a session never holds the same string at two *)
(* positions, whatever the history of the session is.                       *)
C40_NoDuplicateSuggestions ==
    \A i \in 1..Len(terminal_tabs) :
       LET suggestions == compute_suggestions(terminal_tabs[i], AliasTriggers)
       IN  \A j, k \in 1..Len(suggestions) :
              suggestions[j] = suggestions[k] => j = k

(* Two sessions side by side: session 1 is live, its buffer is "l" and its  *)
(* first suggestion is selected; the launch of session 2 failed, so it has  *)
(* no runtime.  The user moves the focus, types, pastes, runs the alias     *)
(* "a", moves through the suggestions and accepts one.                      *)
InitFrame ==
    /\ app = "running"
    /\ pc = "idle"
    /\ terminal_tabs = << [NewTab(1, TRUE, "None") EXCEPT
                              !.input_buffer = <<108>>,
                              !.suggestion_index = 1],
                          NewTab(2, FALSE, "not_found") >>
    /\ active_tab = 2
    /\ tab_counter = 2
    /\ terminal_runtime = [id \in {1} |-> [rx |-> <<>>, parser |-> NewParser]]
    /\ scroll_mode = FALSE
    /\ dialog = "None"
    /\ custom_commands = AliasTable
    /\ child = [id \in Ids |->
                   IF id = 1 THEN [NoChild EXCEPT !.state = Setup("up")]
                   ELSE NoChild]
    /\ pipe = [id \in Ids |-> [p \in Pipes |-> <<>>]]
    /\ reader = [id \in Ids |->
                    [p \in Pipes |-> IF id = 1 THEN "running" ELSE "none"]]
    /\ poll = PollIdle
    /\ closing = NoClosing
    /\ task = "none"
    /\ written = NoWrite
    /\ stdin_pipe = NoStdin

(* The keys l and a, a paste of two letters, Enter *)
FrameBytes == { <<108>>, <<97>>, <<108, 115>>, <<13>> }

NextFrame ==
    \/ \E idx \in 1..2 : SwitchTab(idx)
    \/ \E bytes \in FrameBytes : TerminalSendBytes(bytes) /\ InputFits
    \/ TerminalSuggestionMove(1)
    \/ \E cmd \in Offered : TerminalSuggestionAccept(cmd) /\ InputFits
    \/ RunTask

SpecFrame == InitFrame /\ [][NextFrame]_vars

(* C39: a handler that sends bytes touches the focused session only: the    *)
(* echo buffer, history and suggestion index of every other session stay as *)
(* they were, bytes go to the relay of the focused session and to no other, *)
(* and nothing is written when the focused session has no runtime.          *)
C39_Step ==
    pc = "idle" =>
       /\ \A i \in 1..Len(terminal_tabs) :
             i /= active_tab =>
                /\ terminal_tabs'[i].input_buffer = terminal_tabs[i].input_buffer
                /\ terminal_tabs'[i].command_history
                      = terminal_tabs[i].command_history
                /\ terminal_tabs'[i].suggestion_index
                      = terminal_tabs[i].suggestion_index
       /\ written' /= NoWrite =>
             /\ ActiveValid
             /\ written'.id = terminal_tabs[active_tab].id
             /\ HasRuntime(written'.id)

C39_OnlyActiveSession == [][C39_Step]_vars

(* Bytes went to the focused live session after the user had typed into the *)
(* session without a runtime and selected a suggestion there.               *)
C39_Witness ==
    /\ active_tab = 1
    /\ written /= NoWrite
    /\ written.id = 1
    /\ terminal_tabs[2].input_buffer /= <<>>
    /\ terminal_tabs[2].suggestion_index /= 0

----------------------------------------------------------------------------
(* Writes to a relay's stdin, one write() call at a time *)

(* Logical writes the model lets the user start *)
MaxWrites == 3

(* The bytes of write number w, each with its place in the write *)
Tagged(bytes, w) ==
    [k \in 1..Len(bytes) |-> [w |-> w, k |-> k, len |-> Len(bytes), b |-> bytes[k]]]

(* The handler up to `if let Ok(mut stdin) = runtime.stdin.lock()`: with no *)
(* runtime it returns, otherwise it holds the lock of the session's stdin   *)
(* and write_all(&bytes) begins.                                            *)
WriteLocked(o, sm) ==
    /\ Leaves(o, sm)
    /\ IF o.written = NoWrite
       THEN /\ pc' = IF o.task = "none" THEN "idle" ELSE "task"
            /\ UNCHANGED stdin_pipe
       ELSE /\ stdin_pipe.lock = 0
            /\ stdin_pipe.count < MaxWrites
            /\ pc' = "write"
            /\ stdin_pipe' = [stdin_pipe EXCEPT
                                 !.lock = o.written.id,
                                 !.left = Tagged(o.written.bytes, stdin_pipe.count + 1),
                                 !.count = @ + 1]

(* Message::TerminalSendBytes(bytes), up to its write_all *)
SendBytesWrite(bytes) ==
    /\ UiIdle
    /\ WriteLocked(SendBytesOutcome(bytes, scroll_mode), scroll_mode)

(* Message::TerminalSuggestionAccept(cmd), up to its write_all *)
SuggestionAcceptWrite(cmd) ==
    /\ UiIdle
    /\ active_tab = 0 \/ ActiveValid
    /\ WriteLocked(SuggestionAcceptOutcome(cmd), scroll_mode)

StdinUnchanged ==
    UNCHANGED <<app, terminal_tabs, active_tab, tab_counter, terminal_runtime,
                scroll_mode, dialog, custom_commands, child, pipe, reader, poll,
                closing, task, written>>

(* One write() call inside write_all: the pipe takes the next n bytes *)
StdinWriteSome(n) ==
    /\ pc = "write"
    /\ stdin_pipe.lock \notin stdin_pipe.broken
    /\ n \in 1..Len(stdin_pipe.left)
    /\ stdin_pipe' = [stdin_pipe EXCEPT
                         !.data[stdin_pipe.lock] = @ \o SubSeq(stdin_pipe.left, 1, n),
                         !.left = SubSeq(@, n + 1, Len(@))]
    /\ UNCHANGED pc
    /\ StdinUnchanged

(* write() on a pipe without a reader fails; write_all returns the error,   *)
(* which `let _ =` drops                                                    *)
StdinWriteFails ==
    /\ pc = "write"
    /\ stdin_pipe.lock \in stdin_pipe.broken
    /\ stdin_pipe.left /= <<>>
    /\ stdin_pipe' = [stdin_pipe EXCEPT !.left = <<>>]
    /\ UNCHANGED pc
    /\ StdinUnchanged

(* A handler that leaves the lock after a single write() *)
WriteOnce(left) == TRUE

(* write_all returns when nothing is left to write *)
WriteAllDone(left) == left = <<>>

(* flush(), the guard goes out of scope, the handler returns its Task *)
StdinUnlock ==
    /\ pc = "write"
    /\ WriteAllDone(stdin_pipe.left)
    /\ stdin_pipe' = [stdin_pipe EXCEPT !.lock = 0, !.left = <<>>]
    /\ pc' = IF task = "none" THEN "idle" ELSE "task"
    /\ StdinUnchanged

(* The relay of session id exits or drops its stdin: the read end of the    *)
(* pipe is gone                                                             *)
RelayClosesStdin(id) ==
    /\ HasRuntime(id)
    /\ id \notin stdin_pipe.broken
    /\ stdin_pipe' = [stdin_pipe EXCEPT !.broken = @ \cup {id}]
    /\ UNCHANGED pc
    /\ StdinUnchanged

(* The key a, a paste of two letters, Enter *)
StdinBytes == { <<97>>, <<99, 100>>, <<13>> }

(* Two live sessions; the user switches between them, types, pastes, runs   *)
(* an alias and accepts suggestions, while a relay may go away.             *)
NextStdin ==
    \/ \E idx \in 1..2 : SwitchTab(idx)
    \/ \E bytes \in StdinBytes : SendBytesWrite(bytes) /\ InputFits
    \/ \E cmd \in Offered : SuggestionAcceptWrite(cmd) /\ InputFits
    \/ \E n \in 1..Len(stdin_pipe.left) : StdinWriteSome(n)
    \/ StdinWriteFails
    \/ StdinUnlock
    \/ \E id \in {1, 2} : RelayClosesStdin(id)
    \/ RunTask

SpecStdin == InitKeys /\ [][NextStdin]_vars

(* The bytes of every write stand together in the pipe, in order, and a new *)
(* write begins only after the one before it is complete                    *)
Contiguous(d) ==
    \A j \in 1..Len(d) :
       IF j = 1 THEN d[j].k = 1
       ELSE \/ d[j].w = d[j - 1].w /\ d[j].k = d[j - 1].k + 1
            \/ d[j - 1].k = d[j - 1].len /\ d[j].k = 1 /\ d[j].w > d[j - 1].w

(* The last n bytes that went into a pipe *)
LastBytes(d, n) == [k \in 1..n |-> d[Len(d) - n + k].b]

(* C31: the bytes of one logical write to a session's relay stdin reach the *)
(* pipe next to each other and in order, never mixed with the bytes of      *)
(* another write; once the handler has returned, the pipe ends with exactly *)
(* the bytes it wrote.                                                      *)
C31_SerializedWrites ==
    \A id \in Ids :
       /\ Contiguous(stdin_pipe.data[id])
       /\ (pc /= "write" /\ written.id = id /\ id \notin stdin_pipe.broken)
          => /\ Len(stdin_pipe.data[id]) >= Len(written.bytes)
             /\ LastBytes(stdin_pipe.data[id], Len(written.bytes)) = written.bytes

(* Session 2 has taken a key and then a write of three bytes (clear-line,   *)
(* script, carriage return), and session 1 a write of its own.              *)
C31_Witness ==
    /\ pc /= "write"
    /\ stdin_pipe.data[1] /= <<>>
    /\ Len(stdin_pipe.data[2]) >= 4
    /\ stdin_pipe.data[2][Len(stdin_pipe.data[2])].len = 3
    /\ stdin_pipe.data[2][Len(stdin_pipe.data[2])].k = 3

====
